---- MODULE Spec2Model ----
(***************************************************************************)
(* Model of the functional core library (namespace func) of the ForbocAI   *)
(* SDK plugin: Source/ForbocAI_SDK/Public/Core/functional_core.hpp, and of *)
(* the action validation of the bridge, Private/BridgeModule.cpp.          *)
(*                                                                         *)
(* The module holds one state machine per component of the library.  Each  *)
(* component has its own variables, its own actions and its own            *)
(* specification; a component's specification leaves the variables of the  *)
(* other components at their initial values.                               *)
(*                                                                         *)
(*   SpecAsync  - AsyncResult<T>: then / catch_ / execute and the          *)
(*                resolve / reject dispatch lambdas                        *)
(*   SpecVP     - ValidationPipeline<T>: add / run                         *)
(*   SpecLazy   - Lazy<T>: lazy / eval on independent instances            *)
(*   SpecCurry  - Curried<Arity, Func, CapturedArgs>: curry / operator()   *)
(*   SpecMonad  - the free functions over Maybe<T> and Either<E, T>:       *)
(*                fmap / mbind / ebind, applied to factory-built inputs    *)
(*   SpecFree   - the other free functions: or_else, chained ebind, fmap   *)
(*                over std::vector, compose                                *)
(*   SpecTest   - TestResult<T>: success / failure / withDetail /          *)
(*                isSuccessful / getValue                                  *)
(*   SpecPipe   - Pipeline<T>: pipe / operator|                            *)
(*   SpecBridge - BridgeOps::Validate over the default, the RPG and        *)
(*                caller-built rule lists                                  *)
(*   SpecLazyRace - eval on one Lazy<T> shared by callers that take no     *)
(*                lock, one step per access of the shared instance         *)
(*   SpecConfig - ConfigBuilder<Config>: set / build                       *)
(*   SpecLazyCopy - lazy / eval on a Lazy<T> and on copies of it           *)
(*   SpecAgent    - the executor built by AgentOps::Process                *)
(*   SpecMemory   - MemoryOps::Initialize / Cleanup (simulated build)      *)
(***************************************************************************)
EXTENDS Integers, Sequences, FiniteSets, TLC

VARIABLES
  \* ---- AsyncResult<T> (T = std::string) ----
  successHandlers,  \* std::vector<std::function<void(T)>>: handler ids
  errorHandlers,    \* std::vector<std::function<void(std::string)>>
  regs,             \* history: kind of the i-th registration ("then"/"catch")
  held,             \* the executor kept resolve/reject for a later call
  calls,            \* history: the resolve/reject calls the executor made
  log,              \* history: handler invocations, in the order they ran
  nExec,            \* number of execute() calls so far
  execRegs,         \* Len(regs) when execute() was last called
  \* ---- ValidationPipeline<T> (T = int) ----
  validators,       \* std::vector<std::function<Either<std::string, T>(T)>>
  vpRan,            \* history: run() has been called
  vpRunValidators,  \* history: the validators at the last run()
  vpInput,          \* history: argument of the last run()
  vpResult,         \* history: return value of the last run()
  vpTrace,          \* history: validator calls of the last run(), in order
  \* ---- Lazy<T> (T = int), instances 1..NumLazy ----
  lzThunk,          \* Lazy::thunk: [made, base] per instance
  lzCached,         \* Lazy::cached: [has, val] per instance (null or *cached)
  thunkCalls,       \* side-effect counter of each instance's thunk
  evalRet,          \* history: the values eval() returned, per instance
  \* ---- Curried<Arity, Func, CapturedArgs> ----
  cArity,           \* Arity of curry<Arity>(f); 0 before curry is called
  cAccs,            \* the Curried values built so far: [args, parent, supplied]
  cLast,            \* history: the last application of a Curried value
  cApps,            \* number of applications so far
  \* ---- free functions over Maybe<T> / Either<E, T> ----
  mOp,              \* the function last called ("none" before the first call)
  mIn,              \* its Maybe / Either argument
  mFn,              \* the function argument f it was given
  mOut,             \* the value it returned
  mCalls,           \* the arguments it invoked f with, in order
  \* ---- or_else / chained ebind / fmap over std::vector / compose ----
  kOp,              \* the function last called ("none" before the first call)
  kArgs,            \* its arguments, as a record
  kOut,             \* what it returned, as a record
  kCalls,           \* the calls it made on its function arguments, in order
  \* ---- TestResult<T> (T = int) ----
  tr,               \* the TestResult: [success, value, message, details]
  trOp,             \* the operation last called ("none": nothing built yet)
  trRet,            \* how it ended: [raised, what, value]
  \* ---- BridgeOps::Validate ----
  bRulesFrom,       \* where the rules of the last call came from ("none")
  bAction,          \* the FAgentAction of the last call
  bRules,           \* the TArray<FValidationRule> of the last call
  bResult,          \* the Either<FString, FValidationResult> it returned
  bTrace,           \* the validators and rules it invoked, in order
  \* ---- Pipeline<T> (T = int) ----
  pipes,            \* the Pipeline values built so far: [val] and, as history,
                    \* [seed, parent, fn]: what it was built from
  pCalls,           \* history: the calls operator| made on its functions
  \* ---- eval on one Lazy<T> shared by unsynchronized callers ----
  rcBase,           \* the thunk of the shared Lazy (0: lazy() not called yet)
  rcCached,         \* Lazy::cached of the shared instance
  rcCalls,          \* side-effect counter of the thunk
  rcPc,             \* position of each caller inside eval()
  rcSaw,            \* what each caller read as !lz.cached
  rcInvoked,        \* history: the caller has invoked lz.thunk()
  rcVal,            \* what lz.thunk() returned to each caller
  rcRet,            \* what eval() returned to each caller (0: not yet)
  \* ---- ConfigBuilder<Config> ----
  cbSetters,        \* ConfigBuilder::setters: key -> the value its closure holds
  cbSets,           \* history: the set(key, value) calls, in order
  cbBuilds,         \* history: the build() calls: what each applied and returned
  \* ---- copies of one Lazy<T> ----
  lcInst,           \* the Lazy values: the original (1) and its copies
  lcFrom,           \* history: what each copy was copied from, and its cache then
  lcCalls,          \* side-effect counter of the thunk, all copies together
  lcInvoked,        \* history: thunk invocations made by eval on each value
  lcRet,            \* history: the values eval() returned, per value
  \* ---- the executor built by AgentOps::Process ----
  agPc,             \* position of one execution of the executor
  agDir,            \* the directive exchange's outcome, once its callback ran
  agVer,            \* the verdict exchange's outcome, once its callback ran
  agAction,         \* Action captured by the verdict callback
  agLog,            \* history: requests sent, callbacks run, resolve/reject calls
  \* ---- one FMemoryStore and the simulated connections ----
  msStore,          \* Store.bInitialized and Store.DatabaseHandle
  msOpen,           \* the dummy handles allocated by Open and not yet deleted
  msOpened,         \* number of handles Open has allocated so far
  msLog             \* history: each call with the state before and after it

asyncVars == <<successHandlers, errorHandlers, regs, held, calls, log,
               nExec, execRegs>>

vpVars == <<validators, vpRan, vpRunValidators, vpInput, vpResult, vpTrace>>

lazyVars == <<lzThunk, lzCached, thunkCalls, evalRet>>

curryVars == <<cArity, cAccs, cLast, cApps>>

monadVars == <<mOp, mIn, mFn, mOut, mCalls>>

freeVars == <<kOp, kArgs, kOut, kCalls>>

testVars == <<tr, trOp, trRet>>

bridgeVars == <<bRulesFrom, bAction, bRules, bResult, bTrace>>

pipeVars == <<pipes, pCalls>>

raceVars == <<rcBase, rcCached, rcCalls, rcPc, rcSaw, rcInvoked, rcVal, rcRet>>

configVars == <<cbSetters, cbSets, cbBuilds>>

copyVars == <<lcInst, lcFrom, lcCalls, lcInvoked, lcRet>>

agentVars == <<agPc, agDir, agVer, agAction, agLog>>

memoryVars == <<msStore, msOpen, msOpened, msLog>>

vars == <<asyncVars, vpVars, lazyVars, curryVars, monadVars, freeVars,
          testVars, bridgeVars, pipeVars,
          raceVars,
          configVars,
          copyVars,
          agentVars,
          memoryVars>>

\* What the actions of one component leave alone.
notAsync == <<vpVars, lazyVars, curryVars, monadVars, freeVars,
             testVars, bridgeVars, pipeVars,
             raceVars,
             configVars,
             copyVars,
             agentVars,
             memoryVars>>
notVP    == <<asyncVars, lazyVars, curryVars, monadVars, freeVars,
             testVars, bridgeVars, pipeVars,
             raceVars,
             configVars,
             copyVars,
             agentVars,
             memoryVars>>
notLazy  == <<asyncVars, vpVars, curryVars, monadVars, freeVars,
             testVars, bridgeVars, pipeVars,
             raceVars,
             configVars,
             copyVars,
             agentVars,
             memoryVars>>
notCurry == <<asyncVars, vpVars, lazyVars, monadVars, freeVars,
             testVars, bridgeVars, pipeVars,
             raceVars,
             configVars,
             copyVars,
             agentVars,
             memoryVars>>
notMonad == <<asyncVars, vpVars, lazyVars, curryVars, freeVars,
             testVars, bridgeVars, pipeVars,
             raceVars,
             configVars,
             copyVars,
             agentVars,
             memoryVars>>
notFree  == <<asyncVars, vpVars, lazyVars, curryVars, monadVars,
             testVars, bridgeVars, pipeVars,
             raceVars,
             configVars,
             copyVars,
             agentVars,
             memoryVars>>
notTest  == <<asyncVars, vpVars, lazyVars, curryVars, monadVars, freeVars,
             bridgeVars, pipeVars,
             raceVars,
             configVars,
             copyVars,
             agentVars,
             memoryVars>>
notBridge == <<asyncVars, vpVars, lazyVars, curryVars, monadVars, freeVars,
              testVars, pipeVars,
             raceVars,
             configVars,
             copyVars,
             agentVars,
             memoryVars>>
notPipe  == <<asyncVars, vpVars, lazyVars, curryVars, monadVars, freeVars,
             testVars, bridgeVars,
             raceVars,
             configVars,
             copyVars,
             agentVars,
             memoryVars>>
notRace == <<asyncVars, vpVars, lazyVars, curryVars, monadVars, freeVars,
             testVars, bridgeVars, pipeVars,
             configVars,
             copyVars,
             agentVars,
             memoryVars>>
notConfig == <<asyncVars, vpVars, lazyVars, curryVars, monadVars, freeVars,
             testVars, bridgeVars, pipeVars, raceVars,
             copyVars,
             agentVars,
             memoryVars>>
notCopy == <<asyncVars, vpVars, lazyVars, curryVars, monadVars, freeVars,
             testVars, bridgeVars, pipeVars, raceVars, configVars,
             agentVars,
             memoryVars>>
notAgent == <<asyncVars, vpVars, lazyVars, curryVars, monadVars, freeVars,
             testVars, bridgeVars, pipeVars, raceVars, configVars,
             copyVars,
             memoryVars>>
notMemory == <<asyncVars, vpVars, lazyVars, curryVars, monadVars, freeVars,
             testVars, bridgeVars, pipeVars, raceVars, configVars,
             copyVars, agentVars>>

(***************************************************************************)
(* Bounds                                                                  *)
(***************************************************************************)
MaxHandlers == 3      \* then/catch_ registrations on one AsyncResult
MaxCalls    == 2      \* resolve/reject calls made by the executor
MaxExec     == 2      \* execute() calls

AsyncValues == {"ok", "v2"}      \* payloads of resolve
AsyncErrors == {"e1"}            \* payloads of reject

(***************************************************************************)
(* AsyncResult<T>                                                          *)
(***************************************************************************)

\* A handler of this model appends its own id and the argument it received
\* to the invocation history.
Invocation(h, x) == [id |-> h, arg |-> x]

\* for (const auto &handler : handlers) handler(x);  visiting back to front
RECURSIVE InvokeAllReversed(_, _, _)
InvokeAllReversed(handlers, x, lg) ==
  IF handlers = <<>> THEN lg
  ELSE InvokeAllReversed(SubSeq(handlers, 1, Len(handlers) - 1), x,
                         Append(lg, Invocation(handlers[Len(handlers)], x)))

\* for (const auto &handler : handlers) { handler(x); }
RECURSIVE InvokeAll(_, _, _)
InvokeAll(handlers, x, lg) ==
  IF handlers = <<>> THEN lg
  ELSE InvokeAll(Tail(handlers), x, Append(lg, Invocation(Head(handlers), x)))

\* The dispatcher execute() hands to the executor as `resolve`.
ResolveLambda(sh, eh, value, lg) == InvokeAll(sh, value, lg)

\* A reject dispatcher that walks both handler lists.
RejectLambdaBoth(sh, eh, error, lg) == InvokeAll(sh, error, InvokeAll(eh, error, lg))

\* The dispatcher execute() hands to the executor as `reject`.
RejectLambda(sh, eh, error, lg) == InvokeAll(eh, error, lg)

\* One call of the executor on a dispatcher.
AsyncCalls == [kind : {"resolve"}, arg : AsyncValues]
                \cup [kind : {"reject"}, arg : AsyncErrors]

\* A dispatcher that settles once: it ignores a call when handlers have
\* already been run.
CallLambdaOnce(c, sh, eh, lg) ==
  IF lg # <<>> THEN lg
  ELSE IF c.kind = "resolve" THEN ResolveLambda(sh, eh, c.arg, lg)
                             ELSE RejectLambda(sh, eh, c.arg, lg)

CallLambda(c, sh, eh, lg) ==
  IF c.kind = "resolve" THEN ResolveLambda(sh, eh, c.arg, lg)
                        ELSE RejectLambda(sh, eh, c.arg, lg)

\* History entry of one call: the call, and how many registrations existed
\* at the last execute() and at the call itself.
CallRecord(c, atExec, atCall) ==
  [kind |-> c.kind, arg |-> c.arg, execRegs |-> atExec, nregs |-> atCall]

\* The calls an executor makes before it returns: a finite script.
Scripts(n) == UNION {[1..k -> AsyncCalls] : k \in 0..n}

RECURSIVE RunScript(_, _, _, _)
RunScript(script, sh, eh, lg) ==
  IF script = <<>> THEN lg
  ELSE RunScript(Tail(script), sh, eh, CallLambda(Head(script), sh, eh, lg))

\* A registration that puts the handler in front of the earlier ones.
PushFront(handlers, h) == <<h>> \o handlers

\* successHandlers.push_back(handler); / errorHandlers.push_back(handler);
PushBack(handlers, h) == Append(handlers, h)

\* A registration that runs the new handler at once for every settlement of
\* its kind that has already happened.
RECURSIVE ReplayOnRegister(_, _, _, _)
ReplayOnRegister(kind, h, cs, lg) ==
  IF cs = <<>> THEN lg
  ELSE ReplayOnRegister(kind, h, Tail(cs),
         IF (Head(cs).kind = "resolve") = (kind = "then")
         THEN Append(lg, Invocation(h, Head(cs).arg)) ELSE lg)

\* The handler invocations made by then / catch_ themselves: none, they
\* store the handler and return *this.
LogAfterRegister(kind, h, cs, lg) == lg

\* AsyncResult<T>::then
Then ==
  /\ Len(regs) < MaxHandlers
  /\ successHandlers' = PushBack(successHandlers, Len(regs) + 1)
  /\ regs' = Append(regs, "then")
  /\ log' = LogAfterRegister("then", Len(regs) + 1, calls, log)
  /\ UNCHANGED <<errorHandlers, held, calls, nExec, execRegs>>
  /\ UNCHANGED notAsync

\* AsyncResult<T>::catch_
Catch ==
  /\ Len(regs) < MaxHandlers
  /\ errorHandlers' = PushBack(errorHandlers, Len(regs) + 1)
  /\ regs' = Append(regs, "catch")
  /\ log' = LogAfterRegister("catch", Len(regs) + 1, calls, log)
  /\ UNCHANGED <<successHandlers, held, calls, nExec, execRegs>>
  /\ UNCHANGED notAsync

\* AsyncResult<T>::execute: runs the executor, which calls the dispatchers
\* any number of times before it returns and may keep them for later.
Execute ==
  /\ nExec < MaxExec
  /\ \E script \in Scripts(MaxCalls - Len(calls)), keep \in BOOLEAN :
       /\ log' = RunScript(script, successHandlers, errorHandlers, log)
       /\ calls' = calls \o [i \in 1..Len(script) |->
                               CallRecord(script[i], Len(regs), Len(regs))]
       /\ held' = (held \/ keep)
  /\ nExec' = nExec + 1
  /\ execRegs' = Len(regs)
  /\ UNCHANGED <<successHandlers, errorHandlers, regs>>
  /\ UNCHANGED notAsync

\* A dispatcher that walks a copy of the list taken when execute() ran: the
\* handlers registered by then (ids up to atExec).
CapturedCopy(handlers, atExec) == SelectSeq(handlers, LAMBDA h : h <= atExec)

\* [this](T value) { for (... : successHandlers) ... }: the dispatcher holds
\* the AsyncResult, not its lists; it walks the list as it is when called.
CapturedThis(handlers, atExec) == handlers

\* The executor calls a dispatcher it kept, after execute() returned.  The
\* dispatcher captured `this`: it reads the handler lists as they are now.
Settle ==
  /\ held
  /\ Len(calls) < MaxCalls
  /\ \E c \in AsyncCalls :
       /\ log' = CallLambda(c, CapturedThis(successHandlers, execRegs),
                            CapturedThis(errorHandlers, execRegs), log)
       /\ calls' = Append(calls, CallRecord(c, execRegs, Len(regs)))
  /\ UNCHANGED <<successHandlers, errorHandlers, regs, held, nExec, execRegs>>
  /\ UNCHANGED notAsync

InitAsync ==
  /\ successHandlers = <<>>
  /\ errorHandlers = <<>>
  /\ regs = <<>>
  /\ held = FALSE
  /\ calls = <<>>
  /\ log = <<>>
  /\ nExec = 0
  /\ execRegs = 0

NextAsync == Then \/ Catch \/ Execute \/ Settle

(***************************************************************************)
(* Either<E, T> with E = std::string, T = int                              *)
(***************************************************************************)
DefaultT == 0       \* T{}
DefaultE == ""      \* E{}

\* make_left: Either<E, T>{true, std::move(e), T{}}
MakeLeft(e) == [isLeft |-> TRUE, left |-> e, right |-> DefaultT]

\* make_right: Either<E, T>{false, E{}, std::move(v)}
MakeRight(v) == [isLeft |-> FALSE, left |-> DefaultE, right |-> v]

(***************************************************************************)
(* ValidationPipeline<T>                                                   *)
(***************************************************************************)
MaxValidators == 3      \* validators added to one pipeline
MaxVPInput    == 3      \* run() is called with 0..MaxVPInput

\* The validators callers add: always-fail("A"), always-fail("B"), doubling,
\* an evenness check and an increment.
Validators == {"failA", "failB", "double", "even", "inc"}

\* validator(value)
ApplyValidator(v, x) ==
  CASE v = "failA"  -> MakeLeft("A")
    [] v = "failB"  -> MakeLeft("B")
    [] v = "double" -> MakeRight(2 * x)
    [] v = "even"   -> IF x % 2 = 0 THEN MakeRight(x) ELSE MakeLeft("odd")
    [] v = "inc"    -> MakeRight(x + 1)
    [] v = "typeNonEmpty" ->
         IF x.Type = "" THEN MakeLeft("Action type cannot be empty")
         ELSE MakeRight(x)
    [] v = "targetNonEmpty" ->
         IF x.Target = "" THEN MakeLeft("Action target cannot be empty")
         ELSE MakeRight(x)

\* A loop that never leaves early.
VPStopNever(result) == FALSE

\* if (result.isLeft) return result;
VPStop(result) == result.isLeft

\* A loop that hands every validator the argument of run().
VPKeepValue(value, result) == value

\* value = result.right;
VPNextValue(value, result) == result.right

VPCall(i, x, r) == [idx |-> i, arg |-> x, ret |-> r]

\* for (const auto &validator : validators) { ... } return make_right(value);
\* from validator i on, with the history of the validator calls.
RECURSIVE RunLoop(_, _, _, _)
RunLoop(vs, i, value, trace) ==
  IF i > Len(vs) THEN [result |-> MakeRight(value), trace |-> trace]
  ELSE LET result == ApplyValidator(vs[i], value)
           called == Append(trace, VPCall(i, value, result))
       IN  IF VPStop(result)
             THEN [result |-> result, trace |-> called]
             ELSE RunLoop(vs, i + 1, VPNextValue(value, result), called)

\* ValidationPipeline<T>::add
Add ==
  /\ Len(validators) < MaxValidators
  /\ \E v \in Validators : validators' = Append(validators, v)
  /\ UNCHANGED <<vpRan, vpRunValidators, vpInput, vpResult, vpTrace>>
  /\ UNCHANGED notVP

\* ValidationPipeline<T>::run
Run ==
  /\ \E value \in 0..MaxVPInput :
       LET r == RunLoop(validators, 1, value, <<>>)
       IN  /\ vpInput' = value
           /\ vpResult' = r.result
           /\ vpTrace' = r.trace
  /\ vpRan' = TRUE
  /\ vpRunValidators' = validators
  /\ UNCHANGED validators
  /\ UNCHANGED notVP

InitVP ==
  /\ validators = <<>>
  /\ vpRan = FALSE
  /\ vpRunValidators = <<>>
  /\ vpInput = 0
  /\ vpResult = MakeRight(0)
  /\ vpTrace = <<>>

NextVP == Add \/ Run

(***************************************************************************)
(* Lazy<T>                                                                 *)
(***************************************************************************)
NumLazy  == 2       \* independent Lazy instances
MaxEvals == 4       \* eval() calls on one instance

\* The thunks callers pass to lazy(): thunk number b counts its calls and
\* returns b plus the count, so a second call would return another value.
ThunkBases == {10, 20}

\* lz.thunk()
ThunkValue(b, nthCall) == b + nthCall

NullCache == [has |-> FALSE, val |-> 0]

\* An eval that never finds a cached value.
CacheEmptyAlways(cached) == TRUE

\* !lz.cached
CacheEmpty(cached) == ~cached.has

\* eval(lz) on an instance with thunk b, cache `cached` and a thunk that ran
\* `count` times: the cache, the count and the value returned.
EvalLazy(b, cached, count) ==
  LET filled == IF CacheEmpty(cached)
                  THEN [has |-> TRUE, val |-> ThunkValue(b, count + 1)]
                  ELSE cached
  IN  [cached |-> filled,
       count  |-> IF CacheEmpty(cached) THEN count + 1 ELSE count,
       ret    |-> filled.val]

\* lazy(f): Lazy<T>{std::forward<F>(f), nullptr}
LazyMake(i) ==
  /\ ~lzThunk[i].made
  /\ \E b \in ThunkBases : lzThunk' = [lzThunk EXCEPT ![i] = [made |-> TRUE, base |-> b]]
  /\ lzCached' = [lzCached EXCEPT ![i] = NullCache]
  /\ UNCHANGED <<thunkCalls, evalRet>>
  /\ UNCHANGED notLazy

\* eval(lz)
Eval(i) ==
  /\ lzThunk[i].made
  /\ Len(evalRet[i]) < MaxEvals
  /\ LET r == EvalLazy(lzThunk[i].base, lzCached[i], thunkCalls[i])
     IN  /\ lzCached' = [lzCached EXCEPT ![i] = r.cached]
         /\ thunkCalls' = [thunkCalls EXCEPT ![i] = r.count]
         /\ evalRet' = [evalRet EXCEPT ![i] = Append(@, r.ret)]
  /\ UNCHANGED lzThunk
  /\ UNCHANGED notLazy

InitLazy ==
  /\ lzThunk = [i \in 1..NumLazy |-> [made |-> FALSE, base |-> 0]]
  /\ lzCached = [i \in 1..NumLazy |-> NullCache]
  /\ thunkCalls = [i \in 1..NumLazy |-> 0]
  /\ evalRet = [i \in 1..NumLazy |-> <<>>]

NextLazy == \E i \in 1..NumLazy : LazyMake(i) \/ Eval(i)

(***************************************************************************)
(* Curried / curry                                                         *)
(***************************************************************************)
MaxArity == 3       \* curry<Arity>(f) with Arity in 1..MaxArity
MaxApps  == 3       \* applications of Curried values

\* The arguments callers supply in one application: from none up to three
\* values.
CurryArgValues == {1, 2}
NewArgCounts == {0, 1, 2, 3}
NewArgs == UNION {[1..k -> CurryArgValues] : k \in NewArgCounts}

\* The function handed to curry: it reads its arguments in order, as the
\* digits of a number (Func(<<1, 2>>) = 12, Func(<<2, 1>>) = 21).
RECURSIVE Func(_)
Func(as) == IF as = <<>> THEN 0 ELSE 10 * Func(SubSeq(as, 1, Len(as) - 1)) + as[Len(as)]

\* A tuple_cat that puts the new arguments first.
MergedSwapped(args, new) == new \o args

\* std::tuple_cat(args, std::make_tuple(std::forward<NewArgs>(new_args)...))
Merged(args, new) == args \o new

\* An overload choice that still takes the partial application when the
\* count reaches Arity.
IsPartialOrExact(args, new, arity) == Len(args) + Len(new) <= arity

\* An overload choice that sends every count other than Arity to the partial
\* application.
IsPartialUnlessExact(args, new, arity) == Len(args) + Len(new) # arity

\* std::tuple_size<CapturedArgs>::value + sizeof...(NewArgs) < Arity
IsPartial(args, new, arity) == Len(args) + Len(new) < arity

\* A Curried value: the captured arguments, and as history the Curried
\* value it was made from and the arguments supplied to make it.
Accumulator(args, parent, supplied) ==
  [args |-> args, parent |-> parent, supplied |-> supplied]

\* A partial application that also stores the merged tuple in the value it
\* was applied to.
PartialApplyInPlace(accs, p, new) ==
  Append([accs EXCEPT ![p].args = Merged(accs[p].args, new)],
         Accumulator(Merged(accs[p].args, new), p, new))

\* operator() const, partial application:
\* return Curried<Arity, Func, decltype(merged)>{func, merged};
PartialApply(accs, p, new) ==
  Append(accs, Accumulator(Merged(accs[p].args, new), p, new))

\* History entry of one application: the value applied, the arguments
\* supplied, the Curried value made (0: none), the result returned and the
\* argument tuples func was invoked with.
Application(p, new, made, ret, invoked) ==
  [acc |-> p, supplied |-> new, made |-> made, ret |-> ret, invoked |-> invoked]

\* curry<Arity>(f): Curried<Arity, Func>{f, std::tuple<>{}}
CurryMake ==
  /\ cArity = 0
  /\ \E n \in 1..MaxArity : cArity' = n
  /\ cAccs' = <<Accumulator(<<>>, 0, <<>>)>>
  /\ UNCHANGED <<cLast, cApps>>
  /\ UNCHANGED notCurry

\* Curried::operator() const, partial application overload
ApplyPartial ==
  /\ cArity > 0
  /\ cApps < MaxApps
  /\ \E p \in 1..Len(cAccs), new \in NewArgs :
       /\ IsPartial(cAccs[p].args, new, cArity)
       /\ cAccs' = PartialApply(cAccs, p, new)
       /\ cLast' = Application(p, new, Len(cAccs) + 1, 0, <<>>)
  /\ cApps' = cApps + 1
  /\ UNCHANGED cArity
  /\ UNCHANGED notCurry

\* Curried::operator() const, full application overload:
\* return apply(func, std::tuple_cat(args, std::make_tuple(...)));
ApplyFull ==
  /\ cArity > 0
  /\ cApps < MaxApps
  /\ \E p \in 1..Len(cAccs), new \in NewArgs :
       /\ ~IsPartial(cAccs[p].args, new, cArity)
       /\ cLast' = Application(p, new, 0, Func(Merged(cAccs[p].args, new)),
                               <<Merged(cAccs[p].args, new)>>)
  /\ cApps' = cApps + 1
  /\ UNCHANGED <<cArity, cAccs>>
  /\ UNCHANGED notCurry

InitCurry ==
  /\ cArity = 0
  /\ cAccs = <<>>
  /\ cLast = Application(0, <<>>, 0, 0, <<>>)
  /\ cApps = 0

NextCurry == CurryMake \/ ApplyPartial \/ ApplyFull

(***************************************************************************)
(* Maybe<T>, and fmap / mbind / ebind (T = U = int, E = std::string)       *)
(***************************************************************************)
MaxMValue == 5      \* values 0..MaxMValue are wrapped by just / make_right

MValues == 0..MaxMValue
MErrors == {"", "e1", "e2"}

\* just: Maybe<T>{true, std::move(v)}
Just(v) == [hasValue |-> TRUE, value |-> v]

\* nothing: Maybe<T>{false, T{}}
Nothing == [hasValue |-> FALSE, value |-> DefaultT]

MaybeInputs  == {Nothing} \cup {Just(v) : v \in MValues}
EitherInputs == {MakeLeft(e) : e \in MErrors} \cup {MakeRight(v) : v \in MValues}

\* The functions callers hand to fmap (T -> U), to mbind (T -> Maybe<U>) and
\* to ebind (T -> Either<E, U>).
PlainFns  == {"inc", "double", "zero", "square"}
MaybeFns  == {"justInc", "none", "justIfOdd"}
EitherFns == {"rightInc", "failAll", "half"}

ApplyPlain(f, x) ==
  CASE f = "inc"    -> x + 1
    [] f = "double" -> 2 * x
    [] f = "zero"   -> 0
    [] f = "square" -> x * x

ApplyMaybeFn(f, x) ==
  CASE f = "justInc"   -> Just(x + 1)
    [] f = "none"      -> Nothing
    [] f = "justIfOdd" -> IF x % 2 = 1 THEN Just(x) ELSE Nothing

ApplyEitherFn(f, x) ==
  CASE f = "rightInc" -> MakeRight(x + 1)
    [] f = "failAll"  -> MakeLeft("bad")
    [] f = "half"     -> IF x % 2 = 0 THEN MakeRight(x \div 2) ELSE MakeLeft("odd")

\* What a call returns and the arguments it invoked f with.
Returned(out, invoked) == [out |-> out, invoked |-> invoked]

\* An fmap that does not test hasValue.
FmapMaybeUnchecked(m, f) ==
  Returned([hasValue |-> m.hasValue, value |-> ApplyPlain(f, m.value)], <<m.value>>)

\* fmap(const Maybe<T> &m, Func f)
FmapMaybe(m, f) ==
  IF ~m.hasValue
    THEN Returned([hasValue |-> FALSE, value |-> DefaultT], <<>>)
    ELSE Returned([hasValue |-> TRUE, value |-> ApplyPlain(f, m.value)], <<m.value>>)

\* An fmap over Either that maps the right field whatever isLeft says.
FmapEitherUnchecked(e, f) ==
  Returned([isLeft |-> e.isLeft, left |-> e.left, right |-> ApplyPlain(f, e.right)],
           <<e.right>>)

\* fmap(const Either<E, T> &e, Func f)
FmapEither(e, f) ==
  IF e.isLeft
    THEN Returned([isLeft |-> TRUE, left |-> e.left, right |-> DefaultT], <<>>)
    ELSE Returned([isLeft |-> FALSE, left |-> DefaultE,
                   right |-> ApplyPlain(f, e.right)], <<e.right>>)

\* An mbind whose absent branch leaves something other than T{} in value.
MbindStaleValue(m, f) ==
  IF ~m.hasValue
    THEN Returned([hasValue |-> FALSE, value |-> 1], <<>>)
    ELSE Returned(ApplyMaybeFn(f, m.value), <<m.value>>)

\* mbind(const Maybe<T> &m, Func f)
Mbind(m, f) ==
  IF ~m.hasValue
    THEN Returned([hasValue |-> FALSE, value |-> DefaultT], <<>>)
    ELSE Returned(ApplyMaybeFn(f, m.value), <<m.value>>)

\* An ebind whose failure branch value-initialises the error as well.
EbindDropsError(e, f) ==
  IF e.isLeft
    THEN Returned([isLeft |-> TRUE, left |-> DefaultE, right |-> DefaultT], <<>>)
    ELSE Returned(ApplyEitherFn(f, e.right), <<e.right>>)

\* ebind(const Either<E, T> &e, Func f)
Ebind(e, f) ==
  IF e.isLeft
    THEN Returned([isLeft |-> TRUE, left |-> e.left, right |-> DefaultT], <<>>)
    ELSE Returned(ApplyEitherFn(f, e.right), <<e.right>>)

\* A caller applies fmap to a Maybe built by just / nothing.
CallFmapMaybe ==
  /\ \E m \in MaybeInputs, f \in PlainFns :
       /\ mIn' = m
       /\ mFn' = f
       /\ mOut' = FmapMaybe(m, f).out
       /\ mCalls' = FmapMaybe(m, f).invoked
  /\ mOp' = "fmapMaybe"
  /\ UNCHANGED notMonad

\* A caller applies fmap to an Either built by make_left / make_right.
CallFmapEither ==
  /\ \E e \in EitherInputs, f \in PlainFns :
       /\ mIn' = e
       /\ mFn' = f
       /\ mOut' = FmapEither(e, f).out
       /\ mCalls' = FmapEither(e, f).invoked
  /\ mOp' = "fmapEither"
  /\ UNCHANGED notMonad

\* A caller applies mbind to a Maybe built by just / nothing.
CallMbind ==
  /\ \E m \in MaybeInputs, f \in MaybeFns :
       /\ mIn' = m
       /\ mFn' = f
       /\ mOut' = Mbind(m, f).out
       /\ mCalls' = Mbind(m, f).invoked
  /\ mOp' = "mbind"
  /\ UNCHANGED notMonad

\* A caller applies ebind to an Either built by make_left / make_right.
CallEbind ==
  /\ \E e \in EitherInputs, f \in EitherFns :
       /\ mIn' = e
       /\ mFn' = f
       /\ mOut' = Ebind(e, f).out
       /\ mCalls' = Ebind(e, f).invoked
  /\ mOp' = "ebind"
  /\ UNCHANGED notMonad

\* A caller applies fmap or mbind to the Maybe the last call returned.
ChainMaybe ==
  /\ mOp \in {"fmapMaybe", "mbind"}
  /\ mOut.value \in MValues
  /\ \/ /\ \E f \in PlainFns :
             /\ mFn' = f
             /\ mOut' = FmapMaybe(mOut, f).out
             /\ mCalls' = FmapMaybe(mOut, f).invoked
        /\ mOp' = "fmapMaybe"
     \/ /\ \E f \in MaybeFns :
             /\ mFn' = f
             /\ mOut' = Mbind(mOut, f).out
             /\ mCalls' = Mbind(mOut, f).invoked
        /\ mOp' = "mbind"
  /\ mIn' = mOut
  /\ UNCHANGED notMonad

\* A caller applies fmap or ebind to the Either the last call returned.
ChainEither ==
  /\ mOp \in {"fmapEither", "ebind"}
  /\ mOut.right \in MValues
  /\ \/ /\ \E f \in PlainFns :
             /\ mFn' = f
             /\ mOut' = FmapEither(mOut, f).out
             /\ mCalls' = FmapEither(mOut, f).invoked
        /\ mOp' = "fmapEither"
     \/ /\ \E f \in EitherFns :
             /\ mFn' = f
             /\ mOut' = Ebind(mOut, f).out
             /\ mCalls' = Ebind(mOut, f).invoked
        /\ mOp' = "ebind"
  /\ mIn' = mOut
  /\ UNCHANGED notMonad

InitMonad ==
  /\ mOp = "none"
  /\ mIn = Nothing
  /\ mFn = "none"
  /\ mOut = Nothing
  /\ mCalls = <<>>

NextMonad ==
  \/ CallFmapMaybe \/ CallFmapEither \/ CallMbind \/ CallEbind
  \/ ChainMaybe \/ ChainEither

(***************************************************************************)
(* or_else, chained ebind, fmap over std::vector, compose                  *)
(***************************************************************************)
MaxVecLen == 3      \* length of the vectors handed to fmap

\* An or_else that takes a value equal to T{} for an absent one.
OrElseUnlessDefault(m, def) ==
  IF m.hasValue /\ m.value # DefaultT THEN m.value ELSE def

\* or_else: return m.hasValue ? m.value : def;
OrElse(m, def) == IF m.hasValue THEN m.value ELSE def

\* The arguments a function of EitherFns can meet in a chain of two binds.
ChainDomain == 0..(MaxMValue + 2)

\* A function T -> Either<E, U> of EitherFns, as the table of its results.
TableOf(f) == [x \in ChainDomain |-> ApplyEitherFn(f, x)]

\* An ebind failure branch that leaves isLeft false.
EbindFailureAsSuccess(e) == [isLeft |-> FALSE, left |-> DefaultE, right |-> DefaultT]

\* ebind: return decltype(f(e.right)){true, e.left, {}};
EbindFailure(e) == [isLeft |-> TRUE, left |-> e.left, right |-> DefaultT]

\* ebind(const Either<E, T> &e, Func f), f given by its table
EbindTable(e, tbl) == IF e.isLeft THEN EbindFailure(e) ELSE tbl[e.right]

\* ebind(ebind(m, f), g)
EbindNested(m, f, g) == EbindTable(EbindTable(m, TableOf(f)), TableOf(g))

\* ebind(m, [](T x) { return ebind(f(x), g); })
EbindComposed(m, f, g) ==
  EbindTable(m, [x \in ChainDomain |-> EbindTable(TableOf(f)[x], TableOf(g))])

\* std::vector<U> result; result.resize(vec.size());
VecResize(n) == [i \in 1..n |-> DefaultT]

\* std::vector<U> result; result.reserve(vec.size());
VecReserve(n) == <<>>

\* for (const auto &item : vec) { result.push_back(f(item)); } from item i
\* on: the result, the arguments f was invoked with and the input vector.
RECURSIVE FmapVectorLoop(_, _, _, _, _)
FmapVectorLoop(vec, f, i, result, invoked) ==
  IF i > Len(vec) THEN [out |-> result, invoked |-> invoked, vec |-> vec]
  ELSE FmapVectorLoop(vec, f, i + 1, Append(result, ApplyPlain(f, vec[i])),
                      Append(invoked, vec[i]))

\* fmap(const std::vector<T> &vec, Func f)
FmapVector(vec, f) == FmapVectorLoop(vec, f, 1, VecReserve(Len(vec)), <<>>)

\* One call of a function argument: which one, and on what.
FnCall(fn, x) == [fn |-> fn, arg |-> x]

\* A compose that applies f first.
ComposedApplySwapped(f, g, x) ==
  [out |-> ApplyPlain(g, ApplyPlain(f, x)),
   calls |-> <<FnCall("f", x), FnCall("g", ApplyPlain(f, x))>>]

\* Composed<F, G>::operator(): return f(g(std::forward<Args>(args)...));
ComposedApply(f, g, x) ==
  [out |-> ApplyPlain(f, ApplyPlain(g, x)),
   calls |-> <<FnCall("g", x), FnCall("f", ApplyPlain(g, x))>>]

VecValues == {1, 2, 3}      \* elements of the vectors handed to fmap

Vectors == UNION {[1..n -> VecValues] : n \in 0..MaxVecLen}

\* A caller applies or_else to a Maybe built by just / nothing.
CallOrElse ==
  /\ \E m \in MaybeInputs, d \in MValues :
       /\ kArgs' = [m |-> m, def |-> d]
       /\ kOut' = [value |-> OrElse(m, d)]
  /\ kOp' = "orElse"
  /\ kCalls' = <<>>
  /\ UNCHANGED notFree

\* A caller chains two binds over an Either built by make_left / make_right,
\* once as ebind(ebind(m, f), g) and once as ebind(m, x -> ebind(f(x), g)).
CallEbindChain ==
  /\ \E m \in EitherInputs, f \in EitherFns, g \in EitherFns :
       /\ kArgs' = [m |-> m, f |-> f, g |-> g]
       /\ kOut' = [nested |-> EbindNested(m, f, g),
                   composed |-> EbindComposed(m, f, g)]
  /\ kOp' = "ebindChain"
  /\ kCalls' = <<>>
  /\ UNCHANGED notFree

\* A caller applies fmap to a vector.
CallFmapVector ==
  /\ \E vec \in Vectors, f \in PlainFns :
       LET r == FmapVector(vec, f)
       IN  /\ kArgs' = [vec |-> vec, f |-> f]
           /\ kOut' = [result |-> r.out, vec |-> r.vec]
           /\ kCalls' = r.invoked
  /\ kOp' = "fmapVector"
  /\ UNCHANGED notFree

\* A caller applies compose(f, g) to a value.
CallComposed ==
  /\ \E f \in PlainFns, g \in PlainFns, x \in MValues :
       /\ kArgs' = [f |-> f, g |-> g, x |-> x]
       /\ kOut' = [value |-> ComposedApply(f, g, x).out]
       /\ kCalls' = ComposedApply(f, g, x).calls
  /\ kOp' = "compose"
  /\ UNCHANGED notFree

InitFree ==
  /\ kOp = "none"
  /\ kArgs = [m |-> Nothing]
  /\ kOut = [value |-> DefaultT]
  /\ kCalls = <<>>

NextFree == CallOrElse \/ CallEbindChain \/ CallFmapVector \/ CallComposed

(***************************************************************************)
(* TestResult<T>                                                           *)
(***************************************************************************)
MaxTestValue == 2       \* success() is given a value of 0..MaxTestValue

TestMessages == {"", "boom"}
DetailKeys   == {"k1", "k2"}
DetailValues == {"a", "b"}

\* {}: the empty std::unordered_map
NoDetails == [k \in {} |-> ""]

\* TestResult<T>::success: TestResult<T>{true, value, message, {}}
TestSuccess(value, message) ==
  [success |-> TRUE, value |-> value, message |-> message, details |-> NoDetails]

\* TestResult<T>::failure: TestResult<T>{false, T{}, message, {}}
TestFailure(message) ==
  [success |-> FALSE, value |-> DefaultT, message |-> message, details |-> NoDetails]

\* TestResult<T>::withDetail: details[key] = value;
WithDetail(t, key, value) ==
  [t EXCEPT !.details = [k \in (DOMAIN t.details) \cup {key} |->
                           IF k = key THEN value ELSE t.details[k]]]

\* TestResult<T>::isSuccessful: return success;
IsSuccessful(t) == t.success

\* How a call ended: by an exception (and what() it carries) or by
\* returning a value.
Thrown(what) == [raised |-> TRUE, what |-> what, value |-> DefaultT]

Return(value) == [raised |-> FALSE, what |-> "", value |-> value]

\* A getValue that hands out the stored value whatever the outcome.
GetValueUnchecked(t) == Return(t.value)

\* TestResult<T>::getValue:
\* if (!success) throw std::runtime_error(...); return value;
GetValue(t) ==
  IF ~t.success THEN Thrown("TestResult: Cannot get value from failure")
  ELSE Return(t.value)

\* TestResult<T>::success
Success ==
  /\ \E v \in 0..MaxTestValue, msg \in TestMessages :
       /\ tr' = TestSuccess(v, msg)
       /\ trRet' = Return(TestSuccess(v, msg))
  /\ trOp' = "success"
  /\ UNCHANGED notTest

\* TestResult<T>::failure
Failure ==
  /\ \E msg \in TestMessages :
       /\ tr' = TestFailure(msg)
       /\ trRet' = Return(TestFailure(msg))
  /\ trOp' = "failure"
  /\ UNCHANGED notTest

\* TestResult<T>::withDetail, on the TestResult built before
AddDetail ==
  /\ trOp # "none"
  /\ \E key \in DetailKeys, value \in DetailValues :
       /\ tr' = WithDetail(tr, key, value)
       /\ trRet' = Return(WithDetail(tr, key, value))
  /\ trOp' = "withDetail"
  /\ UNCHANGED notTest

\* TestResult<T>::isSuccessful
AskSuccessful ==
  /\ trOp # "none"
  /\ trRet' = Return(IsSuccessful(tr))
  /\ trOp' = "isSuccessful"
  /\ UNCHANGED tr
  /\ UNCHANGED notTest

\* TestResult<T>::getValue
ReadValue ==
  /\ trOp # "none"
  /\ trRet' = GetValue(tr)
  /\ trOp' = "getValue"
  /\ UNCHANGED tr
  /\ UNCHANGED notTest

InitTest ==
  /\ tr = TestFailure("")
  /\ trOp = "none"
  /\ trRet = Return(DefaultT)

NextTest == Success \/ Failure \/ AddDetail \/ AskSuccessful \/ ReadValue

(***************************************************************************)
(* Pipeline<T>                                                             *)
(***************************************************************************)
MaxPipes == 4       \* Pipeline values built by pipe and operator|

PipeSeeds == {2, 5}     \* the values handed to pipe

\* The functions handed to operator|: those of PlainFns whose results stay
\* within int over a chain of MaxPipes steps.
PipeFns == {"inc", "double", "zero"}

\* A Pipeline: the carried value, and as history the value it was seeded
\* with (pipe) or the Pipeline and the function it was chained from.
PipelineOf(val, seed, parent, fn) ==
  [val |-> val, seed |-> seed, parent |-> parent, fn |-> fn]

\* An operator| that also stores f(p.val) in the Pipeline it was applied to.
ChainedInPlace(ps, p, f) ==
  Append([ps EXCEPT ![p].val = ApplyPlain(f, ps[p].val)],
         PipelineOf(ApplyPlain(f, ps[p].val), 0, p, f))

\* operator|(const Pipeline<T> &p, F f):
\* return Pipeline<decltype(f(p.val))>{f(p.val)};
Chained(ps, p, f) ==
  Append(ps, PipelineOf(ApplyPlain(f, ps[p].val), 0, p, f))

\* pipe(v): Pipeline<T>{std::move(v)}
Pipe ==
  /\ Len(pipes) < MaxPipes
  /\ \E v \in PipeSeeds : pipes' = Append(pipes, PipelineOf(v, v, 0, "none"))
  /\ UNCHANGED pCalls
  /\ UNCHANGED notPipe

\* p | f on a Pipeline built before
Chain ==
  /\ Len(pipes) < MaxPipes
  /\ \E p \in 1..Len(pipes), f \in PipeFns :
       /\ pipes' = Chained(pipes, p, f)
       /\ pCalls' = Append(pCalls, FnCall(f, pipes[p].val))
  /\ UNCHANGED notPipe

InitPipe ==
  /\ pipes = <<>>
  /\ pCalls = <<>>

NextPipe == Pipe \/ Chain

(***************************************************************************)
(* BridgeOps::Validate                                                     *)
(***************************************************************************)
MaxRules == 2       \* length of a caller-built rule list

ActionTypes   == {"", "MOVE", "ATTACK"}
ActionTargets == {"", "orc"}

\* FAgentAction; PayloadJson is kept as what Contains("x") and Contains("y")
\* answer on it.
FAgentAction(type, target, hasX, hasY) ==
  [Type |-> type, Target |-> target, PayloadJson |-> [x |-> hasX, y |-> hasY]]

AgentActions ==
  {FAgentAction(t, g, hx, hy) :
     t \in ActionTypes, g \in ActionTargets, hx \in BOOLEAN, hy \in BOOLEAN}

\* TypeFactory::Valid
Valid(reason) == [bValid |-> TRUE, Reason |-> reason]

\* TypeFactory::Invalid
Invalid(reason) == [bValid |-> FALSE, Reason |-> reason]

\* BridgeTypes::make_left on Either<FString, FValidationResult>: the success
\* side is FValidationResult(), whose constructor sets bValid(true).
BridgeMakeLeft(reason) == [isLeft |-> TRUE, left |-> reason, right |-> Valid("")]

\* BridgeRules::ValidateMovement
ValidateMovement(action) ==
  IF action.PayloadJson.x /\ action.PayloadJson.y
  THEN Valid("Valid coordinates") ELSE Invalid("Missing x,y in payload")

\* BridgeRules::ValidateAttack
ValidateAttack(action) ==
  IF action.Target = "" THEN Invalid("Missing target")
  ELSE Valid("Target specified")

\* BridgeFactory::CreateRule
CreateRule(id, types, validator) ==
  [Id |-> id, ActionTypes |-> types, Validator |-> validator]

MoveRule == CreateRule("move-val", {"MOVE"}, "ValidateMovement")

AttackRule == CreateRule("attack-val", {"ATTACK"}, "ValidateAttack")

\* A rule a game registers itself: it turns every MOVE and ATTACK down.
DenyRule == CreateRule("deny-all", {"MOVE", "ATTACK"}, "Deny")

\* Rule.Validator(validatedAction, Context)
ApplyRule(rule, action) ==
  CASE rule.Validator = "ValidateMovement" -> ValidateMovement(action)
    [] rule.Validator = "ValidateAttack"   -> ValidateAttack(action)
    [] rule.Validator = "Deny"             -> Invalid("Denied")

\* BridgeOps::CreateDefaultRules: return TArray<FValidationRule>();
CreateDefaultRules == <<>>

\* BridgeOps::CreateRPGRules
CreateRPGRules == <<MoveRule, AttackRule>>

\* The rule lists a game builds itself.
CallerRules == UNION {[1..n -> {MoveRule, AttackRule, DenyRule}] : n \in 0..MaxRules}

\* BridgeHelpers::bridgeValidationPipeline
BridgeValidationPipeline == <<"typeNonEmpty", "targetNonEmpty">>

\* auto result = bridgeValidationPipeline().run(Action);
ValidatedByPipeline(action) == RunLoop(BridgeValidationPipeline, 1, action, <<>>)

\* A loop that invokes every rule, whatever its ActionTypes.
RECURSIVE RuleLoopUnfiltered(_, _, _, _)
RuleLoopUnfiltered(rules, i, action, invoked) ==
  IF i > Len(rules)
    THEN [result |-> MakeRight(Valid("All rules passed")), rules |-> invoked]
  ELSE LET Result == ApplyRule(rules[i], action)
       IN  IF ~Result.bValid
             THEN [result |-> BridgeMakeLeft(Result.Reason),
                   rules |-> Append(invoked, rules[i].Id)]
             ELSE RuleLoopUnfiltered(rules, i + 1, action,
                                     Append(invoked, rules[i].Id))

\* for (const FValidationRule &Rule : Rules) { ... }
\* return make_right(TypeFactory::Valid("All rules passed"));
\* from rule i on, with the ids of the rules invoked.
RECURSIVE RuleLoop(_, _, _, _)
RuleLoop(rules, i, action, invoked) ==
  IF i > Len(rules)
    THEN [result |-> MakeRight(Valid("All rules passed")), rules |-> invoked]
  ELSE IF action.Type \in rules[i].ActionTypes
    THEN LET Result == ApplyRule(rules[i], action)
         IN  IF ~Result.bValid
               THEN [result |-> BridgeMakeLeft(Result.Reason),
                     rules |-> Append(invoked, rules[i].Id)]
               ELSE RuleLoop(rules, i + 1, action, Append(invoked, rules[i].Id))
  ELSE RuleLoop(rules, i + 1, action, invoked)

\* BridgeOps::Validate: the result, and the built-in validators and the
\* rules it invoked.
Validate(action, rules) ==
  LET piped == ValidatedByPipeline(action)
  IN  IF piped.result.isLeft
        THEN [result |-> BridgeMakeLeft(piped.result.left),
              trace |-> [pipeline |-> piped.trace, rules |-> <<>>]]
        ELSE LET ruled == RuleLoop(rules, 1, piped.result.right, <<>>)
             IN  [result |-> ruled.result,
                  trace |-> [pipeline |-> piped.trace, rules |-> ruled.rules]]

\* Validate(Action, BridgeOps::CreateDefaultRules(), Context)
ValidateDefault ==
  /\ \E action \in AgentActions :
       /\ bAction' = action
       /\ bResult' = Validate(action, CreateDefaultRules).result
       /\ bTrace' = Validate(action, CreateDefaultRules).trace
  /\ bRules' = CreateDefaultRules
  /\ bRulesFrom' = "CreateDefaultRules"
  /\ UNCHANGED notBridge

\* Validate(Action, BridgeOps::CreateRPGRules(), Context)
ValidateRPG ==
  /\ \E action \in AgentActions :
       /\ bAction' = action
       /\ bResult' = Validate(action, CreateRPGRules).result
       /\ bTrace' = Validate(action, CreateRPGRules).trace
  /\ bRules' = CreateRPGRules
  /\ bRulesFrom' = "CreateRPGRules"
  /\ UNCHANGED notBridge

\* Validate(Action, Rules, Context) with a rule list the caller built
ValidateWith ==
  /\ \E action \in AgentActions, rules \in CallerRules :
       /\ bAction' = action
       /\ bRules' = rules
       /\ bResult' = Validate(action, rules).result
       /\ bTrace' = Validate(action, rules).trace
  /\ bRulesFrom' = "caller"
  /\ UNCHANGED notBridge

InitBridge ==
  /\ bRulesFrom = "none"
  /\ bAction = FAgentAction("", "", FALSE, FALSE)
  /\ bRules = <<>>
  /\ bResult = MakeRight(Valid(""))
  /\ bTrace = [pipeline |-> <<>>, rules |-> <<>>]

NextBridge == ValidateDefault \/ ValidateRPG \/ ValidateWith

(***************************************************************************)
(* eval on a Lazy<T> shared by unsynchronized callers                      *)
(***************************************************************************)
NumCallers == 2     \* callers of eval() on the shared instance

Callers == 1..NumCallers

\* What an unsynchronized read of lz.cached can find: the pointer as it is,
\* or, when another caller stored it (a write this read is not ordered
\* with), still the null pointer.
RacyReads(cached, storedByOther) ==
  {cached} \cup (IF cached.has /\ storedByOther THEN {NullCache} ELSE {})

\* An eval that looks at the cache again before it calls the thunk.
MustFillRechecked(saw, cached) == saw /\ CacheEmpty(cached)

\* if (!lz.cached) { ... }: the branch is taken on what the caller read.
MustFill(saw, cached) == saw

\* The values the cells made so far hold; a reference returned by eval()
\* names one of them.
CellValues(b, count) == {ThunkValue(b, n) : n \in 1..count}

\* lazy(f) for the shared instance
RaceMake ==
  /\ rcBase = 0
  /\ \E b \in ThunkBases : rcBase' = b
  /\ rcCached' = NullCache
  /\ UNCHANGED <<rcCalls, rcPc, rcSaw, rcInvoked, rcVal, rcRet>>
  /\ UNCHANGED notRace

\* Another caller than c has stored into lz.cached.
StoredByOther(c) ==
  \E d \in Callers \ {c} : rcPc[d] \in {"stored", "done"} /\ rcInvoked[d]

\* eval, caller c: reads lz.cached for the test !lz.cached
RaceCheck(c) ==
  /\ rcBase # 0
  /\ rcPc[c] = "idle"
  /\ \E seen \in RacyReads(rcCached, StoredByOther(c)) :
       rcSaw' = [rcSaw EXCEPT ![c] = CacheEmpty(seen)]
  /\ rcPc' = [rcPc EXCEPT ![c] = "checked"]
  /\ UNCHANGED <<rcBase, rcCached, rcCalls, rcInvoked, rcVal, rcRet>>
  /\ UNCHANGED notRace

\* eval, caller c: lz.thunk()
RaceThunk(c) ==
  /\ rcPc[c] = "checked"
  /\ MustFill(rcSaw[c], rcCached)
  /\ rcCalls' = rcCalls + 1
  /\ rcVal' = [rcVal EXCEPT ![c] = ThunkValue(rcBase, rcCalls + 1)]
  /\ rcInvoked' = [rcInvoked EXCEPT ![c] = TRUE]
  /\ rcPc' = [rcPc EXCEPT ![c] = "called"]
  /\ UNCHANGED <<rcBase, rcCached, rcSaw, rcRet>>
  /\ UNCHANGED notRace

\* eval, caller c: lz.cached = std::make_shared<T>(...)
RaceStore(c) ==
  /\ rcPc[c] = "called"
  /\ rcCached' = [has |-> TRUE, val |-> rcVal[c]]
  /\ rcPc' = [rcPc EXCEPT ![c] = "stored"]
  /\ UNCHANGED <<rcBase, rcCalls, rcSaw, rcInvoked, rcVal, rcRet>>
  /\ UNCHANGED notRace

\* eval, caller c: return *lz.cached; the caller reads the value through the
\* reference, which names a cell another caller's store may have replaced.
RaceReturn(c) ==
  /\ \/ rcPc[c] = "stored"
     \/ rcPc[c] = "checked" /\ ~MustFill(rcSaw[c], rcCached)
  /\ \E v \in CellValues(rcBase, rcCalls) : rcRet' = [rcRet EXCEPT ![c] = v]
  /\ rcPc' = [rcPc EXCEPT ![c] = "done"]
  /\ UNCHANGED <<rcBase, rcCached, rcCalls, rcSaw, rcInvoked, rcVal>>
  /\ UNCHANGED notRace

InitRace ==
  /\ rcBase = 0
  /\ rcCached = NullCache
  /\ rcCalls = 0
  /\ rcPc = [c \in Callers |-> "idle"]
  /\ rcSaw = [c \in Callers |-> FALSE]
  /\ rcInvoked = [c \in Callers |-> FALSE]
  /\ rcVal = [c \in Callers |-> 0]
  /\ rcRet = [c \in Callers |-> 0]

NextRace ==
  \/ RaceMake
  \/ \E c \in Callers : RaceCheck(c) \/ RaceThunk(c) \/ RaceStore(c) \/ RaceReturn(c)

(***************************************************************************)
(* ConfigBuilder<Config>                                                   *)
(***************************************************************************)
MaxSets   == 3      \* set() calls on one builder
MaxBuilds == 2      \* build() calls on one builder

ConfigKeys == {"name", "port"}

\* The values handed to set<T>: a std::string or an int.
StringValue(s) == [type |-> "string", s |-> s, n |-> 0]

IntValue(n) == [type |-> "int", s |-> "", n |-> n]

ConfigValues == {StringValue("MyApp"), StringValue("Web"), IntValue(8080)}

\* std::unordered_map<...> setters, empty
NoSetters == [k \in {} |-> IntValue(0)]

\* Config config;
EmptyConfig == [k \in {} |-> IntValue(0)]

\* setters[key] = [value](Config &config) mutable { ... };
SetSetter(setters, key, value) ==
  [k \in (DOMAIN setters) \cup {key} |-> IF k = key THEN value ELSE setters[k]]

\* config.set(key, std::move(value)); on the Config being built
ConfigSet(config, key, value) ==
  [k \in (DOMAIN config) \cup {key} |-> IF k = key THEN value ELSE config[k]]

\* The value a closure holds after it ran std::move(value): an int is
\* copied; a std::string is left valid but unspecified, here emptied or not.
AfterMove(value, emptied) ==
  IF value.type = "string" /\ emptied THEN StringValue("") ELSE value

\* The orders in which for (const auto &pair : setters) can visit the map.
VisitOrders(keys) ==
  {o \in [1..Cardinality(keys) -> keys] :
     \A i, j \in 1..Cardinality(keys) : i # j => o[i] # o[j]}

\* for (const auto &pair : setters) { pair.second(config); } in the order
\* given, from entry i on.
RECURSIVE ApplySetters(_, _, _, _)
ApplySetters(order, i, setters, config) ==
  IF i > Len(order) THEN config
  ELSE ApplySetters(order, i + 1, setters,
                    ConfigSet(config, order[i], setters[order[i]]))

\* History entry of one build(): the setters it found, the keys whose
\* setter it ran, in order, the Config returned and the number of set()
\* calls made before.
BuildRecord(before, applied, config, nsets) ==
  [before |-> before, applied |-> applied, config |-> config, nsets |-> nsets]

\* ConfigBuilder::set
ConfigSetCall ==
  /\ Len(cbSets) < MaxSets
  /\ \E key \in ConfigKeys, value \in ConfigValues :
       /\ cbSetters' = SetSetter(cbSetters, key, value)
       /\ cbSets' = Append(cbSets, [key |-> key, value |-> value])
  /\ UNCHANGED cbBuilds
  /\ UNCHANGED notConfig

\* ConfigBuilder::build
ConfigBuild ==
  /\ Len(cbBuilds) < MaxBuilds
  /\ \E order \in VisitOrders(DOMAIN cbSetters),
        emptied \in SUBSET {k \in DOMAIN cbSetters : cbSetters[k].type = "string"} :
       /\ cbBuilds' = Append(cbBuilds,
            BuildRecord(cbSetters, order,
                        ApplySetters(order, 1, cbSetters, EmptyConfig),
                        Len(cbSets)))
       /\ cbSetters' = [k \in DOMAIN cbSetters |->
                          AfterMove(cbSetters[k], k \in emptied)]
  /\ UNCHANGED cbSets
  /\ UNCHANGED notConfig

InitConfig ==
  /\ cbSetters = NoSetters
  /\ cbSets = <<>>
  /\ cbBuilds = <<>>

NextConfig == ConfigSetCall \/ ConfigBuild

(***************************************************************************)
(* Copies of a Lazy<T>                                                     *)
(***************************************************************************)
NumCopies    == 2       \* copies taken of the original and of its copies
MaxCopyEvals == 2       \* eval() calls on one value

LazyValues == 1..(1 + NumCopies)

\* Lazy<T>{thunk, cached}; made is false for a value not built yet.
LazyOf(made, base, cached) == [made |-> made, base |-> base, cached |-> cached]

NoLazy == LazyOf(FALSE, 0, NullCache)

\* A copy that starts with an empty cache of its own.
CopiedWithoutCache(lz) == LazyOf(lz.made, lz.base, NullCache)

\* The implicit copy constructor of Lazy<T>: thunk and cached are copied
\* member by member; the copy of a shared_ptr names the same cell, the copy
\* of a null shared_ptr is another null shared_ptr.
Copied(lz) == LazyOf(lz.made, lz.base, lz.cached)

\* History entry of a copy: the value copied and its cache at that time.
CopiedFrom(i, cached) == [src |-> i, cached |-> cached]

\* lazy(f)
CopyOriginal ==
  /\ ~lcInst[1].made
  /\ \E b \in ThunkBases : lcInst' = [lcInst EXCEPT ![1] = LazyOf(TRUE, b, NullCache)]
  /\ UNCHANGED <<lcFrom, lcCalls, lcInvoked, lcRet>>
  /\ UNCHANGED notCopy

\* Lazy<T> copy = lz;
CopyLazy ==
  /\ \E i \in LazyValues, j \in LazyValues :
       /\ lcInst[i].made
       /\ ~lcInst[j].made
       /\ \A k \in LazyValues : k < j => lcInst[k].made
       /\ lcInst' = [lcInst EXCEPT ![j] = Copied(lcInst[i])]
       /\ lcFrom' = [lcFrom EXCEPT ![j] = CopiedFrom(i, lcInst[i].cached)]
  /\ UNCHANGED <<lcCalls, lcInvoked, lcRet>>
  /\ UNCHANGED notCopy

\* eval(lz) on the original or on a copy
CopyEval ==
  /\ \E i \in LazyValues :
       /\ lcInst[i].made
       /\ Len(lcRet[i]) < MaxCopyEvals
       /\ LET r == EvalLazy(lcInst[i].base, lcInst[i].cached, lcCalls)
          IN  /\ lcInst' = [lcInst EXCEPT ![i].cached = r.cached]
              /\ lcInvoked' = [lcInvoked EXCEPT ![i] = @ + (r.count - lcCalls)]
              /\ lcCalls' = r.count
              /\ lcRet' = [lcRet EXCEPT ![i] = Append(@, r.ret)]
  /\ UNCHANGED lcFrom
  /\ UNCHANGED notCopy

InitCopy ==
  /\ lcInst = [i \in LazyValues |-> NoLazy]
  /\ lcFrom = [i \in LazyValues |-> CopiedFrom(0, NullCache)]
  /\ lcCalls = 0
  /\ lcInvoked = [i \in LazyValues |-> 0]
  /\ lcRet = [i \in LazyValues |-> <<>>]

NextCopy == CopyOriginal \/ CopyLazy \/ CopyEval

(***************************************************************************)
(* AgentOps::Process                                                       *)
(***************************************************************************)
StatusCodes  == {200, 404, 500}
Instructions == {"MOVE", "BLOCKED", ""}
Targets      == {"door", ""}

\* What a completion callback receives: bSuccess, whether Response is
\* valid, and (for a valid Response) its status code, whether its content
\* deserializes, and the fields read from it.
NoExchange == [done |-> FALSE]

DirectiveOutcome(ok, valid, code, parsed, instr, target) ==
  [done |-> TRUE, bSuccess |-> ok, valid |-> valid, code |-> code,
   parsed |-> parsed, instruction |-> instr, target |-> target]

VerdictOutcome(ok, valid, code, parsed, verValid) ==
  [done |-> TRUE, bSuccess |-> ok, valid |-> valid, code |-> code,
   parsed |-> parsed, verValid |-> verValid]

\* The outcomes an exchange can have; an invalid Response has no code and
\* no content, content that does not deserialize has no fields.
DirectiveOutcomes ==
  {DirectiveOutcome(ok, FALSE, 0, FALSE, "", "") : ok \in BOOLEAN}
  \cup {DirectiveOutcome(ok, TRUE, code, FALSE, "", "") :
          ok \in BOOLEAN, code \in StatusCodes}
  \cup {DirectiveOutcome(ok, TRUE, code, TRUE, i, t) :
          ok \in BOOLEAN, code \in StatusCodes, i \in Instructions, t \in Targets}

VerdictOutcomes ==
  {VerdictOutcome(ok, FALSE, 0, FALSE, FALSE) : ok \in BOOLEAN}
  \cup {VerdictOutcome(ok, TRUE, code, FALSE, FALSE) :
          ok \in BOOLEAN, code \in StatusCodes}
  \cup {VerdictOutcome(ok, TRUE, code, TRUE, v) :
          ok \in BOOLEAN, code \in StatusCodes, v \in BOOLEAN}

\* TypeFactory::Action(Type, Target)
Action(type, target) == [type |-> type, target |-> target]

NoAction == Action("", "")

\* A directive check that looks at bSuccess alone.
DirectiveFailedOnTransport(r) == ~r.bSuccess

\* if (!bSuccess || !Response.IsValid() || Response->GetResponseCode() != 200)
DirectiveFailed(r) == ~r.bSuccess \/ ~r.valid \/ r.code # 200

\* Instruction = "IDLE", Target = "" unless the content deserializes.
DirectiveAction(r) ==
  IF r.parsed THEN Action(r.instruction, r.target) ELSE Action("IDLE", "")

\* bValid: false unless bVSuccess, a valid response, status 200 and content
\* that deserializes with verValid true.
VerdictValid(r) ==
  r.bSuccess /\ r.valid /\ r.code = 200 /\ r.parsed /\ r.verValid

\* The FAgentResponse handed to resolve.
VerdictResponse(r, action) ==
  IF ~VerdictValid(r)
  THEN [action |-> Action("BLOCKED", "Protocol"), thought |-> "Blocked by Protocol"]
  ELSE [action |-> action, thought |-> "Signed"]

Sent(request)     == [ev |-> "send", what |-> request]
Completed(request) == [ev |-> "complete", what |-> request]
Resolved(response) == [ev |-> "resolve", what |-> response]
Rejected(error)   == [ev |-> "reject", what |-> error]

\* The executor runs: it builds the directive request, binds its completion
\* callback and calls DirRequest->ProcessRequest().
AgentExecute ==
  /\ agPc = "idle"
  /\ agPc' = "directive"
  /\ agLog' = Append(agLog, Sent("directive"))
  /\ UNCHANGED <<agDir, agVer, agAction>>
  /\ UNCHANGED notAgent

\* The directive request's completion callback, failure branch.
DirectiveRejected ==
  /\ agPc = "directive"
  /\ \E r \in DirectiveOutcomes :
       /\ DirectiveFailed(r)
       /\ agDir' = r
       /\ agPc' = "done"
       /\ agLog' = agLog \o <<Completed("directive"),
                              Rejected("Error connecting to Mind or Network Error")>>
  /\ UNCHANGED <<agVer, agAction>>
  /\ UNCHANGED notAgent

\* The directive request's completion callback, success branch: it builds
\* the action and the verdict request, binds the verdict callback and calls
\* VerRequest->ProcessRequest().
DirectiveAccepted ==
  /\ agPc = "directive"
  /\ \E r \in DirectiveOutcomes :
       /\ ~DirectiveFailed(r)
       /\ agDir' = r
       /\ agAction' = DirectiveAction(r)
       /\ agPc' = "verdict"
       /\ agLog' = agLog \o <<Completed("directive"), Sent("verdict")>>
  /\ UNCHANGED agVer
  /\ UNCHANGED notAgent

\* The verdict request's completion callback.
VerdictComplete ==
  /\ agPc = "verdict"
  /\ \E r \in VerdictOutcomes :
       /\ agVer' = r
       /\ agPc' = "done"
       /\ agLog' = agLog \o <<Completed("verdict"),
                              Resolved(VerdictResponse(r, agAction))>>
  /\ UNCHANGED <<agDir, agAction>>
  /\ UNCHANGED notAgent

InitAgent ==
  /\ agPc = "idle"
  /\ agDir = NoExchange
  /\ agVer = NoExchange
  /\ agAction = NoAction
  /\ agLog = <<>>

NextAgent ==
  AgentExecute \/ DirectiveRejected \/ DirectiveAccepted \/ VerdictComplete

(***************************************************************************)
(* MemoryOps::Initialize / MemoryOps::Cleanup, build without the native    *)
(* library                                                                 *)
(***************************************************************************)
MaxMemCalls == 4        \* Initialize and Cleanup calls on the store

NullHandle == 0

\* FMemoryStore: bInitialized and DatabaseHandle.
StoreOf(init, handle) == [bInitialized |-> init, DatabaseHandle |-> handle]

\* The store and the connections together.
MemState(store, open, opened) ==
  [store |-> store, open |-> open, opened |-> opened]

\* Native::Sqlite::Open: a new dummy handle, never null.
SqliteOpen(m) ==
  [handle |-> m.opened + 1,
   mem |-> MemState(m.store, m.open \cup {m.opened + 1}, m.opened + 1)]

\* Native::Sqlite::Close: if (Db) delete.
SqliteClose(m, db) ==
  IF db # NullHandle THEN MemState(m.store, m.open \ {db}, m.opened) ELSE m

\* SQLiteVSS::CloseDatabase: if (Handle) Close(Handle).
CloseDatabase(m, handle) ==
  IF handle # NullHandle THEN SqliteClose(m, handle) ELSE m

WithHandle(m, handle) ==
  MemState(StoreOf(m.store.bInitialized, handle), m.open, m.opened)

WithInitialized(m, init) ==
  MemState(StoreOf(init, m.store.DatabaseHandle), m.open, m.opened)

\* What one Initialize call meets: whether Store.Config validates, whether
\* OpenDatabase returns a left (Open threw), whether CreateTables returns a
\* left (it threw).
InitializeInputs ==
  [configValid : BOOLEAN, openFails : BOOLEAN, tablesFail : BOOLEAN]

InitializeReturned(m, ok) == [mem |-> m, ok |-> ok]

\* An Initialize that never takes the early return.
NeverInitialized(m) == FALSE

\* if (Store.bInitialized) return right(true);
AlreadyInitialized(m) == m.store.bInitialized

\* MemoryOps::Initialize
InitializeStore(m, in) ==
  IF AlreadyInitialized(m) THEN InitializeReturned(m, TRUE)
  ELSE IF ~in.configValid THEN InitializeReturned(m, FALSE)
  ELSE IF in.openFails THEN InitializeReturned(m, FALSE)
  ELSE LET openResult == SqliteOpen(m)
           assigned == WithHandle(openResult.mem, openResult.handle)
       IN  IF in.tablesFail
           THEN InitializeReturned(
                  WithHandle(CloseDatabase(assigned, assigned.store.DatabaseHandle),
                             NullHandle), FALSE)
           ELSE InitializeReturned(WithInitialized(assigned, TRUE), TRUE)

\* MemoryOps::Cleanup
CleanupStore(m) ==
  IF m.store.bInitialized /\ m.store.DatabaseHandle # NullHandle
  THEN WithInitialized(
         WithHandle(CloseDatabase(m, m.store.DatabaseHandle), NullHandle), FALSE)
  ELSE m

MemNow == MemState(msStore, msOpen, msOpened)

MemCall(op, ok, before, after) ==
  [op |-> op, ok |-> ok, before |-> before, after |-> after]

MemInitialize ==
  /\ Len(msLog) < MaxMemCalls
  /\ \E in \in InitializeInputs :
       LET r == InitializeStore(MemNow, in)
       IN  /\ msStore' = r.mem.store
           /\ msOpen' = r.mem.open
           /\ msOpened' = r.mem.opened
           /\ msLog' = Append(msLog, MemCall("Initialize", r.ok, MemNow, r.mem))
  /\ UNCHANGED notMemory

MemCleanup ==
  /\ Len(msLog) < MaxMemCalls
  /\ LET after == CleanupStore(MemNow)
     IN  /\ msStore' = after.store
         /\ msOpen' = after.open
         /\ msOpened' = after.opened
         /\ msLog' = Append(msLog, MemCall("Cleanup", TRUE, MemNow, after))
  /\ UNCHANGED notMemory

\* MemoryOps::CreateStore / FMemoryStore()
InitMemory ==
  /\ msStore = StoreOf(FALSE, NullHandle)
  /\ msOpen = {}
  /\ msOpened = 0
  /\ msLog = <<>>

NextMemory == MemInitialize \/ MemCleanup

(***************************************************************************)
(* Specifications                                                          *)
(***************************************************************************)
Init ==
  /\ InitAsync /\ InitVP /\ InitLazy /\ InitCurry /\ InitMonad /\ InitFree
  /\ InitTest /\ InitBridge /\ InitPipe
  /\ InitRace
  /\ InitConfig
  /\ InitCopy
  /\ InitAgent
  /\ InitMemory

SpecAsync == Init /\ [][NextAsync]_vars

SpecVP == Init /\ [][NextVP]_vars

SpecLazy == Init /\ [][NextLazy]_vars

SpecCurry == Init /\ [][NextCurry]_vars

SpecMonad == Init /\ [][NextMonad]_vars

SpecFree == Init /\ [][NextFree]_vars

SpecTest == Init /\ [][NextTest]_vars

SpecBridge == Init /\ [][NextBridge]_vars

SpecPipe == Init /\ [][NextPipe]_vars

SpecLazyRace == Init /\ [][NextRace]_vars

SpecConfig == Init /\ [][NextConfig]_vars

SpecLazyCopy == Init /\ [][NextCopy]_vars

SpecAgent == Init /\ [][NextAgent]_vars

SpecMemory == Init /\ [][NextMemory]_vars

(***************************************************************************)
(* Properties of AsyncResult                                               *)
(***************************************************************************)

\* Ids of the handlers of one kind among the first n registrations, in
\* registration order.
RegisteredOfKind(kind, n) ==
  SelectSeq([i \in 1..n |-> i], LAMBDA i : regs[i] = kind)

KindFor(c) == IF c.kind = "resolve" THEN "then" ELSE "catch"

\* C1: when the executor has settled exactly once, with resolve(v) or with
\* reject(e), the handlers of the matching kind that were registered before
\* execute() have each run exactly once, with that payload, in the order in
\* which they were registered.
C1_HandlersFireInRegistrationOrder ==
  (Len(calls) = 1) =>
    LET c     == calls[1]
        pre   == RegisteredOfKind(KindFor(c), c.execRegs)
        fired == SelectSeq(log, LAMBDA e : /\ e.id <= c.execRegs
                                           /\ regs[e.id] = KindFor(c))
    IN  fired = [j \in 1..Len(pre) |-> Invocation(pre[j], c.arg)]

C1_Witness ==
  /\ Len(calls) = 1
  /\ calls[1].kind = "resolve"
  /\ Len(RegisteredOfKind("then", calls[1].execRegs)) >= 2
  /\ Len(log) >= 2

\* C2: a settlement reaches only the handlers of its own kind: while every
\* call of the executor was resolve no catch-handler has run, and while
\* every call was reject no then-handler has run; with two then-handlers and
\* one catch-handler registered and a single resolve("ok"), each then-handler
\* has run exactly once with "ok" and the catch-handler not at all.
C2_OnlyMatchingKindFires ==
  /\ (\A i \in 1..Len(calls) : calls[i].kind = "resolve")
        => \A j \in 1..Len(log) : regs[log[j].id] = "then"
  /\ (\A i \in 1..Len(calls) : calls[i].kind = "reject")
        => \A j \in 1..Len(log) : regs[log[j].id] = "catch"
  /\ ( /\ Len(calls) = 1
       /\ calls[1].kind = "resolve" /\ calls[1].arg = "ok"
       /\ calls[1].nregs = 3
       /\ Len(RegisteredOfKind("then", 3)) = 2 )
        => /\ \A h \in 1..3 : regs[h] = "then" =>
                Cardinality({j \in 1..Len(log) : log[j].id = h}) = 1
           /\ \A j \in 1..Len(log) : log[j].arg = "ok" /\ regs[log[j].id] = "then"

C2_Witness ==
  /\ Len(calls) = 1
  /\ calls[1].kind = "resolve" /\ calls[1].arg = "ok"
  /\ calls[1].nregs = 3
  /\ Len(RegisteredOfKind("then", 3)) = 2
  /\ Len(log) = 2

RECURSIVE SettledSince(_, _, _)
SettledSince(cs, kind, h) ==
  IF cs = <<>> THEN <<>>
  ELSE IF KindFor(Head(cs)) = kind /\ Head(cs).nregs >= h
       THEN <<Head(cs).arg>> \o SettledSince(Tail(cs), kind, h)
       ELSE SettledSince(Tail(cs), kind, h)

\* The payloads handler h has been invoked with, in order.
RECURSIVE InvokedWith(_, _)
InvokedWith(lg, h) ==
  IF lg = <<>> THEN <<>>
  ELSE IF Head(lg).id = h THEN <<Head(lg).arg>> \o InvokedWith(Tail(lg), h)
       ELSE InvokedWith(Tail(lg), h)

\* C14: there is no replay of a past settlement: a handler has been invoked
\* exactly for the settlements of its kind made after its registration, so a
\* handler registered after the executor called resolve or reject is not
\* invoked for that call and stays uninvoked until a further settlement.
C14_NoReplayOfPastSettlement ==
  \A h \in 1..Len(regs) : InvokedWith(log, h) = SettledSince(calls, regs[h], h)

C14_Witness ==
  /\ Len(calls) = 1
  /\ calls[1].kind = "resolve"
  /\ calls[1].nregs = 1
  /\ regs = <<"then", "then">>
  /\ log = <<Invocation(1, calls[1].arg)>>

\* The handler invocations the first n calls of the executor lead to when
\* each call runs the handlers of its kind registered by the time of the
\* call, in registration order.
RECURSIVE DispatchedAtCallTime(_)
DispatchedAtCallTime(n) ==
  IF n = 0 THEN <<>>
  ELSE LET c   == calls[n]
           now == RegisteredOfKind(KindFor(c), c.nregs)
       IN  DispatchedAtCallTime(n - 1)
             \o [j \in 1..Len(now) |-> Invocation(now[j], c.arg)]

\* C25: dispatch reads the handler lists when the executor settles, not when
\* execute() ran: every call of resolve / reject runs the handlers of its
\* kind registered by then, so a handler registered after execute()
\* returned and before a deferred settlement is invoked at that settlement,
\* after the handlers of its kind registered earlier.
C25_DispatchReadsListsAtSettlement ==
  log = DispatchedAtCallTime(Len(calls))

C25_Witness ==
  /\ regs = <<"then", "then">>
  /\ Len(calls) = 1
  /\ calls[1].kind = "resolve"
  /\ calls[1].execRegs = 1
  /\ calls[1].nregs = 2
  /\ log = <<Invocation(1, calls[1].arg), Invocation(2, calls[1].arg)>>

\* The number of invocations of handler h.
TimesInvoked(h) == Cardinality({j \in 1..Len(log) : log[j].id = h})

\* The number of calls of the dispatcher of handler h's kind made since h
\* was registered.
CallsSince(h) ==
  Cardinality({i \in 1..Len(calls) :
                 KindFor(calls[i]) = regs[h] /\ calls[i].nregs >= h})

\* C26: AsyncResult applies no settle-once guard: every then-handler has been
\* invoked as many times as resolve was called since its registration and
\* every catch-handler as many times as reject was, so calling resolve
\* twice, resolve and reject both, or execute() twice fires the handlers
\* once per call.
C26_HandlersFireOncePerCall ==
  \A h \in 1..Len(regs) : TimesInvoked(h) = CallsSince(h)

C26_Witness ==
  /\ regs = <<"then", "catch">>
  /\ nExec = 2
  /\ Len(calls) = 2
  /\ calls[1].kind = "resolve" /\ calls[1].arg = "ok"
  /\ calls[2].kind = "resolve" /\ calls[2].arg = "ok"
  /\ calls[1].nregs = 2
  /\ TimesInvoked(1) = 2
  /\ TimesInvoked(2) = 0

(***************************************************************************)
(* Properties of ValidationPipeline                                        *)
(***************************************************************************)

\* The value that reaches validator n + 1 when validators 1..n all succeed.
RECURSIVE Threaded(_, _, _)
Threaded(vs, x, n) ==
  IF n = 0 THEN x ELSE ApplyValidator(vs[n], Threaded(vs, x, n - 1)).right

\* What validator k returns in a run on x that reaches it.
ReturnOf(vs, x, k) == ApplyValidator(vs[k], Threaded(vs, x, k - 1))

\* How often validator i was called in the last run.
Invoked(i) == Cardinality({j \in 1..Len(vpTrace) : vpTrace[j].idx = i})

\* C3: run short-circuits: when validator k is the first, in list order, to
\* return a failure, run returns exactly that failure, validators up to k were
\* each called exactly once and no validator after k was called; for
\* [always-fail("A"), always-fail("B")] the error is "A" and the second
\* validator was not called.
C3_RunShortCircuits ==
  vpRan =>
    LET vs == vpRunValidators
    IN  /\ \A k \in 1..Len(vs) :
             ( /\ ReturnOf(vs, vpInput, k).isLeft
               /\ \A j \in 1..(k - 1) : ~ReturnOf(vs, vpInput, j).isLeft )
             => /\ vpResult = ReturnOf(vs, vpInput, k)
                /\ \A i \in 1..Len(vs) : Invoked(i) = IF i <= k THEN 1 ELSE 0
        /\ (Len(vs) >= 2 /\ vs[1] = "failA" /\ vs[2] = "failB")
             => /\ vpResult.isLeft
                /\ vpResult.left = "A"
                /\ Invoked(2) = 0

C3_Witness ==
  /\ vpRan
  /\ Len(vpRunValidators) = 3
  /\ vpResult.isLeft
  /\ Len(vpTrace) = 2
  /\ Invoked(3) = 0

\* C4: run calls the validators in the order they were added and threads the
\* value through them: the first one called receives the argument of run,
\* each later one the success value of the one before it, and when all
\* succeed run returns success with the value the last one returned (the
\* argument itself for an empty pipeline); [double, even] on 3 gives 6.
C4_RunThreadsValue ==
  vpRan =>
    LET vs == vpRunValidators
        n  == Len(vpTrace)
    IN  /\ \A j \in 1..n :
             /\ vpTrace[j].idx = j
             /\ vpTrace[j].arg = IF j = 1 THEN vpInput ELSE vpTrace[j - 1].ret.right
             /\ vpTrace[j].ret = ApplyValidator(vs[j], vpTrace[j].arg)
        /\ (\A k \in 1..Len(vs) : ~ReturnOf(vs, vpInput, k).isLeft)
             => /\ n = Len(vs)
                /\ ~vpResult.isLeft
                /\ vpResult.right = IF n = 0 THEN vpInput ELSE vpTrace[n].ret.right
                /\ vpResult = MakeRight(Threaded(vs, vpInput, Len(vs)))
        /\ (vs = <<"double", "even">> /\ vpInput = 3) => vpResult = MakeRight(6)

C4_Witness ==
  /\ vpRan
  /\ vpRunValidators = <<"double", "even">>
  /\ vpInput = 3
  /\ vpResult = MakeRight(6)
  /\ Len(vpTrace) = 2

(***************************************************************************)
(* Properties of Lazy                                                      *)
(***************************************************************************)

\* C5: on one Lazy instance, lazy(thunk) and the time before the first eval
\* leave the thunk uncalled; from the first eval on the thunk has been called
\* exactly once, however many evals followed, and every eval returned the
\* same value, the one the thunk's first call produced.
C5_ThunkRunsOnce ==
  \A i \in 1..NumLazy :
    /\ Len(evalRet[i]) = 0 => thunkCalls[i] = 0 /\ ~lzCached[i].has
    /\ Len(evalRet[i]) >= 1 =>
         /\ lzThunk[i].made
         /\ thunkCalls[i] = 1
         /\ \A j \in 1..Len(evalRet[i]) :
              evalRet[i][j] = ThunkValue(lzThunk[i].base, 1)

C5_Witness ==
  \E i \in 1..NumLazy :
    /\ Len(evalRet[i]) >= 3
    /\ thunkCalls[i] = 1
    /\ evalRet[i][3] = evalRet[i][1]

\* C21: eval gives no at-most-once guarantee to callers that race: a caller
\* invokes the thunk exactly when its own read found the cache empty,
\* whatever another caller has stored since, so the thunk has run once per
\* caller that read the empty cache - twice when two callers both read it
\* before either stored.
C21_RacingEvalsEachInvokeThunk ==
  /\ rcCalls = Cardinality({c \in Callers : rcInvoked[c]})
  /\ \A c \in Callers :
       /\ rcInvoked[c] => rcSaw[c]
       /\ (rcPc[c] = "done") => (rcInvoked[c] <=> rcSaw[c])

C21_Witness ==
  \E c, d \in Callers :
    /\ c # d
    /\ rcPc[c] = "done" /\ rcPc[d] = "done"
    /\ rcSaw[c] /\ rcSaw[d]
    /\ rcInvoked[c] /\ rcInvoked[d]
    /\ rcCalls = 2

\* The sum of the thunk invocations made through the values 1..n.
RECURSIVE InvokedUpTo(_)
InvokedUpTo(n) == IF n = 0 THEN 0 ELSE InvokedUpTo(n - 1) + lcInvoked[n]

\* C27: the at-most-once guarantee holds per cache cell, not per thunk: a
\* copy taken after the first eval shares the cached value, its evals
\* return that value and never invoke the thunk; a copy taken before has an
\* empty cache of its own and its first eval invokes the thunk, so the
\* original and such a copy invoke the thunk once each.
C27_AtMostOncePerCacheCell ==
  /\ lcCalls = InvokedUpTo(1 + NumCopies)
  /\ \A i \in LazyValues :
       /\ lcInvoked[i] <= 1
       /\ (lcFrom[i].src # 0 /\ lcFrom[i].cached.has) =>
            /\ lcInvoked[i] = 0
            /\ \A n \in 1..Len(lcRet[i]) : lcRet[i][n] = lcFrom[i].cached.val
       /\ (lcInst[i].made /\ ~lcFrom[i].cached.has) =>
            lcInvoked[i] = (IF Len(lcRet[i]) > 0 THEN 1 ELSE 0)

C27_Witness ==
  /\ lcFrom[2] = CopiedFrom(1, NullCache)
  /\ lcFrom[3].src = 1 /\ lcFrom[3].cached.has
  /\ Len(lcRet[1]) > 0 /\ Len(lcRet[2]) > 0 /\ Len(lcRet[3]) > 0
  /\ lcInvoked = <<1, 1, 0>>
  /\ lcCalls = 2

(***************************************************************************)
(* Properties of Curried                                                   *)
(***************************************************************************)

\* The arguments supplied along the chain of applications that made
\* Curried value p, in the order they were supplied.
RECURSIVE Supplied(_)
Supplied(p) ==
  IF cAccs[p].parent = 0 THEN <<>>
  ELSE Supplied(cAccs[p].parent) \o cAccs[p].supplied

\* C6: when the arguments supplied over one or more successive applications
\* of curry<N>(f) add up to exactly N, the application that supplies the last
\* of them returns f of all N arguments in the order supplied and is the one
\* application that invokes f, once; an application that leaves the count
\* below N invokes f not at all.
C6_CurryAppliesInOrderOnce ==
  (cApps > 0) =>
    LET given == Supplied(cLast.acc) \o cLast.supplied
    IN  /\ (Len(given) = cArity) =>
             /\ cLast.ret = Func(given)
             /\ cLast.invoked = <<given>>
             /\ cLast.made = 0
        /\ (Len(given) < cArity) =>
             /\ cLast.invoked = <<>>
             /\ cLast.made = Len(cAccs)
             /\ Supplied(cLast.made) = given
        /\ (cArity = 2 /\ given = <<1, 2>>) => cLast.ret = 12

C6_Witness ==
  /\ cArity = 3
  /\ cApps = 3
  /\ Len(Supplied(cLast.acc)) = 2
  /\ cAccs[cLast.acc].parent > 1
  /\ Len(cLast.supplied) = 1
  /\ cLast.invoked = <<Supplied(cLast.acc) \o cLast.supplied>>

\* C7: applying a Curried value never changes it: every application leaves
\* every existing Curried value with the captured arguments it had, a
\* partial application returns a new Curried value holding the captured
\* arguments followed by the new ones, and a full application returns f of
\* the arguments p was made with followed by its own, whatever other uses
\* of p came before.
C7_ApplicationLeavesCurriedUnchanged ==
  [][ /\ \A p \in 1..Len(cAccs) :
           /\ Len(cAccs') >= p
           /\ cAccs'[p] = cAccs[p]
      /\ (cApps' = cApps + 1) =>
           LET p == cLast'.acc
               own == Supplied(p) \o cLast'.supplied
           IN  /\ cAccs[p].args = Supplied(p)
               /\ IF Len(own) < cArity
                    THEN /\ cLast'.made = Len(cAccs) + 1
                         /\ cAccs'[cLast'.made].args = own
                    ELSE /\ cLast'.made = 0
                         /\ cLast'.ret = Func(own) ]_vars

C7_Witness ==
  /\ cArity = 2
  /\ cApps = 3
  /\ Len(cAccs) = 2
  /\ cAccs[2].args = <<1>>
  /\ cLast.acc = 2
  /\ cLast.supplied = <<2>>
  /\ cLast.ret = 12

\* C15: over-application is accepted: when an application brings the number
\* of arguments supplied so far to more than N, the function is invoked once
\* with all captured arguments followed by all newly supplied ones, none
\* dropped, its result is what the application returns, and no Curried value
\* is made.
C15_OverApplicationPassesAllArguments ==
  (cApps > 0) =>
    LET given == Supplied(cLast.acc) \o cLast.supplied
    IN  (Len(given) > cArity) =>
          /\ cLast.invoked = <<given>>
          /\ cLast.ret = Func(given)
          /\ cLast.made = 0
          /\ Len(cAccs) < cApps + 1

C15_Witness ==
  /\ cArity = 2
  /\ cApps = 2
  /\ Supplied(cLast.acc) = <<1>>
  /\ cLast.supplied = <<2, 1>>
  /\ cLast.invoked = <<<<1, 2, 1>>>>
  /\ cLast.ret = 121

\* C22: every Curried value obtained from curry<N>(f), N >= 1, by any
\* sequence of applications holds fewer than N captured arguments: an
\* application that brings the count to N or more makes no Curried value
\* and invokes f instead.
C22_AccumulatorsHoldFewerThanArity ==
  /\ \A p \in 1..Len(cAccs) : Len(cAccs[p].args) < cArity
  /\ (cApps > 0 /\ Len(cAccs[cLast.acc].args) + Len(cLast.supplied) >= cArity) =>
       /\ cLast.made = 0
       /\ Len(cLast.invoked) = 1

C22_Witness ==
  /\ cArity = 3
  /\ cApps = 3
  /\ Len(cAccs) = 3
  /\ Len(cAccs[3].args) = 2
  /\ cLast.acc = 3
  /\ Len(cLast.supplied) = 1
  /\ cLast.made = 0
  /\ Len(cLast.invoked) = 1

(***************************************************************************)
(* Properties of fmap / mbind / ebind                                      *)
(***************************************************************************)

\* C8: ebind(make_right(v), f) is f(v), and ebind(make_left(e), f) is
\* make_left(e) with f not invoked.
C8_EbindLaws ==
  (mOp = "ebind") =>
    /\ \A v \in MValues : (mIn = MakeRight(v)) => mOut = ApplyEitherFn(mFn, v)
    /\ \A e \in MErrors : (mIn = MakeLeft(e)) => mOut = MakeLeft(e) /\ mCalls = <<>>

C8_Witness ==
  /\ mOp = "ebind"
  /\ mIn = MakeLeft("e1")
  /\ mFn = "rightInc"
  /\ mOut = MakeLeft("e1")
  /\ mCalls = <<>>

\* C9: fmap over Either maps the success side only: fmap(make_right(v), f) is
\* a success carrying f(v) with f invoked exactly once, and
\* fmap(make_left(e), f) is a failure carrying e with f not invoked.
C9_FmapEitherMapsSuccessOnly ==
  (mOp = "fmapEither") =>
    /\ \A v \in MValues : (mIn = MakeRight(v)) =>
         /\ ~mOut.isLeft
         /\ mOut.right = ApplyPlain(mFn, v)
         /\ mCalls = <<v>>
    /\ \A e \in MErrors : (mIn = MakeLeft(e)) =>
         /\ mOut.isLeft
         /\ mOut.left = e
         /\ mCalls = <<>>

C9_Witness ==
  /\ mOp = "fmapEither"
  /\ mIn = MakeRight(2)
  /\ mFn = "square"
  /\ mOut = MakeRight(4)
  /\ mCalls = <<2>>

\* C10: for Maybe, fmap(just(v), f) is just(f(v)) and fmap(nothing(), f) is
\* nothing(); mbind(just(v), f) is f(v) and mbind(nothing(), f) is absent;
\* in both absent cases f is not invoked.
C10_MaybeFmapAndBind ==
  /\ (mOp = "fmapMaybe") =>
       /\ \A v \in MValues : (mIn = Just(v)) => mOut = Just(ApplyPlain(mFn, v))
       /\ (mIn = Nothing) => mOut = Nothing /\ mCalls = <<>>
  /\ (mOp = "mbind") =>
       /\ \A v \in MValues : (mIn = Just(v)) => mOut = ApplyMaybeFn(mFn, v)
       /\ (mIn = Nothing) => ~mOut.hasValue /\ mCalls = <<>>

C10_Witness ==
  /\ mOp = "fmapMaybe"
  /\ mIn = Nothing
  /\ mFn = "inc"
  /\ mOut = Nothing
  /\ mCalls = <<>>

\* The inactive field of a Maybe or an Either holds the default value of
\* its type.
InactiveIsDefault(x) ==
  IF "hasValue" \in DOMAIN x
    THEN ~x.hasValue => x.value = DefaultT
    ELSE /\ x.isLeft => x.right = DefaultT
         /\ ~x.isLeft => x.left = DefaultE

\* C23: every Maybe and Either made by just, nothing, make_left, make_right
\* or returned by fmap / mbind / ebind on such values, with functions that
\* use the factories, has its inactive field at the default value: an absent
\* Maybe carries T{}, a failure Either carries T{} on the success side and a
\* success Either carries E{} on the error side.
C23_InactiveFieldIsDefault ==
  /\ InactiveIsDefault(mIn)
  /\ InactiveIsDefault(mOut)
  /\ \A m \in MaybeInputs : InactiveIsDefault(m)
  /\ \A e \in EitherInputs : InactiveIsDefault(e)

C23_Witness ==
  /\ mOp = "ebind"
  /\ mIn = MakeLeft("odd")
  /\ mFn = "rightInc"
  /\ mOut.isLeft
  /\ mOut.left = "odd"
  /\ mOut.right = DefaultT

(***************************************************************************)
(* Properties of TestResult                                                *)
(***************************************************************************)

\* C16, as stated: no operation signals a failure by raising an exception,
\* reading the value of a failure TestResult included.
C16_NoOperationRaises == ~trRet.raised

\* C16, amended: a failure is a value - failure() returns a TestResult with
\* success false, the default value and the message, and isSuccessful and
\* withDetail return normally on it - with one exception: getValue raises
\* std::runtime_error exactly when the TestResult is a failure, and returns
\* the stored value when it is a success.
C16_OnlyGetValueOnFailureRaises ==
  /\ trRet.raised <=> (trOp = "getValue" /\ ~tr.success)
  /\ (trOp = "getValue" /\ tr.success) => trRet.value = tr.value
  /\ (trOp = "failure") =>
       /\ ~tr.success
       /\ tr.value = DefaultT
       /\ trRet.value = tr
  /\ (trOp = "isSuccessful") => trRet.value = tr.success

C16_Witness ==
  /\ trOp = "getValue"
  /\ ~tr.success
  /\ tr.message = "boom"
  /\ trRet.raised
  /\ trRet.what = "TestResult: Cannot get value from failure"

(***************************************************************************)
(* Properties of Pipeline                                                  *)
(***************************************************************************)

\* fn(...f1(v)...) for the Pipeline i: its seed put through the functions it
\* was chained with, first to last.
RECURSIVE Piped(_)
Piped(i) ==
  IF pipes[i].parent = 0 THEN pipes[i].seed
  ELSE ApplyPlain(pipes[i].fn, Piped(pipes[i].parent))

\* The Pipelines made by operator|, in the order they were made.
ChainedPipes == SelectSeq([i \in 1..Len(pipes) |-> i],
                          LAMBDA i : pipes[i].parent # 0)

\* C19: pipe(v) | f1 | ... | fn carries fn(...f1(v)...), each step applied
\* exactly once, left to right; a chaining step yields a new Pipeline and
\* leaves the one it was applied to, like every other, with its value, so
\* chaining an intermediate Pipeline again gives the same result.
C19_PipelineThreadsValue ==
  /\ [](/\ \A i \in 1..Len(pipes) : pipes[i].val = Piped(i)
        /\ Len(pCalls) = Len(ChainedPipes)
        /\ \A k \in 1..Len(pCalls) :
             pCalls[k] = FnCall(pipes[ChainedPipes[k]].fn,
                                Piped(pipes[ChainedPipes[k]].parent))
        /\ \A i, j \in 1..Len(pipes) :
             (pipes[i].parent # 0 /\ pipes[i].parent = pipes[j].parent
                /\ pipes[i].fn = pipes[j].fn) => pipes[i].val = pipes[j].val)
  /\ [][ /\ Len(pipes') = Len(pipes) + 1
         /\ SubSeq(pipes', 1, Len(pipes)) = pipes ]_vars

C19_Witness ==
  /\ Len(pipes) = 4
  /\ pipes[1] = PipelineOf(5, 5, 0, "none")
  /\ pipes[2] = PipelineOf(6, 0, 1, "inc")
  /\ pipes[3] = PipelineOf(12, 0, 2, "double")
  /\ pipes[4] = PipelineOf(12, 0, 2, "double")
  /\ Len(pCalls) = 3

(***************************************************************************)
(* Properties of BridgeOps::Validate                                       *)
(***************************************************************************)

\* C17: validating an action against the default rule set, which holds no
\* rule, yields a valid result; in particular a MOVE action with x and y in
\* its payload and no target is valid.
C17_DefaultRulesValidateMove ==
  ( /\ bRulesFrom = "CreateDefaultRules"
    /\ bAction = FAgentAction("MOVE", "", TRUE, TRUE) )
     => (~bResult.isLeft /\ bResult.right.bValid)

\* The rules of the list that apply to the validated action, by position.
Applicable == {i \in 1..Len(bRules) : bAction.Type \in bRules[i].ActionTypes}

\* What each registered validator answers on the validated action.
Verdict(i) ==
  CASE bRules[i].Id = "move-val" ->
         IF bAction.PayloadJson.x /\ bAction.PayloadJson.y
         THEN Valid("Valid coordinates") ELSE Invalid("Missing x,y in payload")
    [] bRules[i].Id = "attack-val" ->
         IF bAction.Target = "" THEN Invalid("Missing target")
         ELSE Valid("Target specified")
    [] bRules[i].Id = "deny-all" -> Invalid("Denied")

Failing == {i \in Applicable : ~Verdict(i).bValid}

\* The applicable rules up to and including the first failing one.
Reached == {i \in Applicable : \A j \in Failing : i <= j}

\* The ids of the rules at the positions of a set, in list order.
IdsOf(positions) ==
  LET At(i) == bRules[i]
      kept == SelectSeq([i \in 1..Len(bRules) |-> i], LAMBDA i : i \in positions)
  IN  [n \in 1..Len(kept) |-> At(kept[n]).Id]

C11_OrElse ==
  (kOp = "orElse") =>
    /\ \A v \in MValues : (kArgs.m = Just(v)) => kOut.value = v
    /\ (kArgs.m = Nothing) => kOut.value = kArgs.def

C11_Witness ==
  /\ kOp = "orElse"
  /\ kArgs.m = Just(DefaultT)
  /\ kArgs.def = 3
  /\ kOut.value = DefaultT

\* C12: ebind is associative: for m built by make_left / make_right and f, g
\* returning Eithers, ebind(ebind(m, f), g) equals
\* ebind(m, x -> ebind(f(x), g)).
C12_EbindAssociative ==
  (kOp = "ebindChain") => kOut.nested = kOut.composed

C12_Witness ==
  /\ kOp = "ebindChain"
  /\ kArgs.m = MakeRight(4)
  /\ kArgs.f = "half"
  /\ kArgs.g = "half"
  /\ kOut.nested = MakeRight(1)
  /\ kOut.composed = MakeRight(1)

\* C18: fmap over a vector returns a vector of the same length whose i-th
\* element is f of the i-th input element; f is invoked exactly once per
\* element, in input order; the input vector is left as it was; the empty
\* vector maps to the empty vector.
C18_FmapVector ==
  (kOp = "fmapVector") =>
    /\ Len(kOut.result) = Len(kArgs.vec)
    /\ \A i \in 1..Len(kArgs.vec) : kOut.result[i] = ApplyPlain(kArgs.f, kArgs.vec[i])
    /\ kCalls = kArgs.vec
    /\ kOut.vec = kArgs.vec
    /\ (kArgs.vec = <<>>) => kOut.result = <<>>

C18_Witness ==
  /\ kOp = "fmapVector"
  /\ kArgs.vec = <<3, 1, 2>>
  /\ kArgs.f = "square"
  /\ kOut.result = <<9, 1, 4>>
  /\ kCalls = <<3, 1, 2>>

\* C20: compose(f, g)(x) is f(g(x)): g is applied first, to x, then f to
\* what g returned, each exactly once.
C20_ComposeAppliesGThenF ==
  (kOp = "compose") =>
    /\ kOut.value = ApplyPlain(kArgs.f, ApplyPlain(kArgs.g, kArgs.x))
    /\ kCalls = <<FnCall("g", kArgs.x), FnCall("f", ApplyPlain(kArgs.g, kArgs.x))>>

C20_Witness ==
  /\ kOp = "compose"
  /\ kArgs.f = "inc"
  /\ kArgs.g = "double"
  /\ kArgs.x = 5
  /\ kOut.value = 11

(***************************************************************************)
(* Properties of ConfigBuilder                                             *)
(***************************************************************************)

\* The keys of the first n set() calls.
KeysSet(n) == {cbSets[i].key : i \in 1..n}

\* The value of the last of the first n set() calls that names key.
RECURSIVE LatestSet(_, _)
LatestSet(key, n) ==
  IF cbSets[n].key = key THEN cbSets[n].value ELSE LatestSet(key, n - 1)

\* C24: build() applies exactly one setter per distinct key, each exactly
\* once, the most recently registered one for its key, and leaves the
\* builder's setters as they were, so a repeated build applies the same
\* setters and every build returns the values last set.
C24_BuildAppliesLatestSetters ==
  /\ \A b \in 1..Len(cbBuilds) :
       LET build == cbBuilds[b]
       IN  /\ build.applied \in VisitOrders(KeysSet(build.nsets))
           /\ DOMAIN build.config = KeysSet(build.nsets)
           /\ \A k \in KeysSet(build.nsets) :
                build.config[k] = LatestSet(k, build.nsets)
  /\ \A k \in KeysSet(Len(cbSets)) : cbSetters[k] = LatestSet(k, Len(cbSets))

(***************************************************************************)
(* Properties of AgentOps::Process                                         *)
(***************************************************************************)
\* The positions of the log entries of one kind.
LogPositions(ev, what) ==
  {n \in 1..Len(agLog) : agLog[n].ev = ev /\ agLog[n].what = what}

ResolveCalls == {n \in 1..Len(agLog) : agLog[n].ev = "resolve"}

RejectCalls == {n \in 1..Len(agLog) : agLog[n].ev = "reject"}

\* Transport failure, invalid response or status other than 200.
CompletedUnsuccessfully(r) ==
  r.done /\ (~r.bSuccess \/ ~r.valid \/ r.code # 200)

\* C28: in one execution of the executor, a directive exchange that
\* completes unsuccessfully is followed by exactly one reject and no verdict
\* request; otherwise the verdict request is sent after the directive
\* response, resolve is called exactly once when the verdict response
\* arrives, with a BLOCKED action unless that response has status 200 and
\* verValid true; resolve and reject are never both called.
C28_OneSettlementPerExecution ==
  /\ ResolveCalls = {} \/ RejectCalls = {}
  /\ ~agDir.done =>
       /\ ResolveCalls = {} /\ RejectCalls = {}
       /\ LogPositions("send", "verdict") = {}
  /\ CompletedUnsuccessfully(agDir) =>
       /\ Cardinality(RejectCalls) = 1
       /\ LogPositions("send", "verdict") = {}
  /\ (agDir.done /\ ~CompletedUnsuccessfully(agDir)) =>
       /\ Cardinality(LogPositions("send", "verdict")) = 1
       /\ \A s \in LogPositions("send", "verdict") :
            \E d \in LogPositions("complete", "directive") : d < s
       /\ ~agVer.done => ResolveCalls = {}
       /\ agVer.done =>
            /\ Cardinality(ResolveCalls) = 1
            /\ \A n \in ResolveCalls :
                 /\ \E v \in LogPositions("complete", "verdict") : v < n
                 /\ ~(agVer.valid /\ agVer.code = 200 /\ agVer.verValid) =>
                      agLog[n].what.action.type = "BLOCKED"

C28_Witness ==
  /\ agPc = "done"
  /\ agDir.done /\ agDir.bSuccess /\ agDir.valid /\ agDir.code = 200
  /\ agDir.instruction = "MOVE"
  /\ agVer.done /\ agVer.valid /\ agVer.code = 500
  /\ Cardinality(ResolveCalls) = 1
  /\ RejectCalls = {}
  /\ agLog[Len(agLog)] =
       Resolved([action |-> Action("BLOCKED", "Protocol"),
                 thought |-> "Blocked by Protocol"])

(***************************************************************************)
(* Properties of MemoryOps::Initialize / Cleanup                           *)
(***************************************************************************)
\* C29: after any sequence of Initialize and Cleanup calls on one store the
\* store holds an open connection if and only if bInitialized is true, and
\* then DatabaseHandle is that connection: Initialize on an initialized store
\* opens no second connection, a failed Initialize leaves bInitialized false
\* and no connection open, Cleanup closes the connection and resets both
\* fields.
C29_ConnectionOpenIffInitialized ==
  /\ msStore.bInitialized <=> (msOpen # {})
  /\ msStore.bInitialized =>
       (msStore.DatabaseHandle # NullHandle /\ msOpen = {msStore.DatabaseHandle})
  /\ \A n \in 1..Len(msLog) :
       LET call == msLog[n]
       IN  /\ (call.op = "Initialize" /\ call.before.store.bInitialized) =>
                (call.after = call.before /\ call.ok)
           /\ (call.op = "Initialize" /\ ~call.ok) =>
                (~call.after.store.bInitialized /\ call.after.open = {})
           /\ (call.op = "Initialize" /\ call.ok) =>
                (call.after.store.bInitialized /\ Cardinality(call.after.open) = 1)
           /\ call.op = "Cleanup" =>
                call.after.store = [bInitialized |-> FALSE, DatabaseHandle |-> 0]
                /\ call.after.open = {}

C29_Witness ==
  /\ Len(msLog) = 4
  /\ msLog[1].op = "Initialize" /\ ~msLog[1].ok /\ msLog[1].after.opened = 1
  /\ msLog[2].op = "Initialize" /\ msLog[2].ok /\ msLog[2].after.open = {2}
  /\ msLog[3].op = "Initialize" /\ msLog[3].after.opened = 2
  /\ msLog[4].op = "Cleanup" /\ msLog[4].before.open = {2}
  /\ msOpen = {} /\ ~msStore.bInitialized

====
